---- MODULE Spec2Model ----
(***************************************************************************)
(* Model of the Python SDK clients of the FaaS platform:                   *)
(*   FaaSClient          (src/sdks/python/faas_sdk.py)                     *)
(*   FaaSPlatformClient  (src/sdk/python/faas_sdk/client.py)               *)
(* One caller drives one client; a call runs from its Begin action to the  *)
(* action that returns or raises.  The transport is nondeterministic: each *)
(* network call is answered by a response or by an exception.              *)
(***************************************************************************)
EXTENDS Integers, Sequences, FiniteSets, TLC

VARIABLES
    client,        \* class of the constructed client
    max_retries,   \* ClientConfig.max_retries / FaaSPlatformClient.max_retries
    cache_enabled, \* ClientConfig.cache_enabled
    metrics,       \* FaaSClient.metrics (ClientMetrics)
    pc,            \* position of the caller inside the running call
    attempt,       \* loop variable `attempt` of the retry loop
    elapsed_ms,    \* wall-clock milliseconds since start_time of the call
    payload,       \* request body built by the running call
    last_error,    \* local `last_error` of FaaSClient.execute
    sent,          \* bodies handed to the transport by the running call, in order
    responses,     \* answers of the transport to the running call, in order
    delays,        \* backoff sleeps (ms) paid by the running call, in order
    outcome,       \* what the last finished call returned or raised
    calls,         \* number of calls begun so far
    args,          \* parameters of the running FaaSClient.execute
    metrics0,      \* metrics when the running call began
    this_call,     \* parameters, caching switch and body of the latest execute
    prev_call,     \* the same of the execute before it, on whichever instance
    tasks,         \* concurrent FaaSClient.execute calls (asyncio tasks), by index
    built,         \* whether the constructor has run, and how it ended
    api_key,       \* ClientConfig.api_key / FaaSPlatformClient.api_key
    session,       \* the aiohttp.ClientSession objects the client has created
    wire,          \* method and headers of the network calls of the running call
    pm,            \* a running FaaSPlatformClient.parallel_map
    rc,            \* a running FaaSPlatformClient.race
    fl,            \* a FluentExecutor chain
    fk,            \* a fork_execution over named branches
    sh,            \* a call of run_python, run_javascript or run_bash
    sl             \* the generators of stream_logs and the streams they read

vars == <<client, max_retries, cache_enabled, metrics, pc, attempt, elapsed_ms,
          payload, last_error, sent, responses, delays, outcome, calls,
          args, metrics0, this_call, prev_call, tasks, built, api_key, session,
          wire, pm, rc, fl, fk, sh, sl>>

\* the object and its credential
authVars == <<built, api_key>>
\* the transport as the running call used it
netVars == <<session, wire>>

\* the ClientSession objects the client has created so far, in order, each open
\* or closed; _session is None while there is none and the last one afterwards
NoSession == <<>>
\* lines 332-335, and 146-150 of client.py: a session is created on first use
LazySession(s) == IF s = NoSession THEN <<"open">> ELSE s
\* state of the concerns a single sequential caller does not touch
ext == <<tasks, pm, rc, fl, fk, sh, sl>>

----------------------------------------------------------------------------
(* Bounds of the model *)

MaxRetriesBound == 3
MaxCalls == 2

(* Program constants *)

DefaultTimeoutMs == 30000
CacheHitThresholdMs == 10
FaaSBackoffBaseMs == 100
PlatformBackoffBaseMs == 1000
DigestLen == 32

(* Network latencies the clock can show for one round trip *)
FastMs == 5
SlowMs == 50
Latencies == {FastMs, SlowMs}

----------------------------------------------------------------------------
(* Strings are sequences of characters *)

None == <<"None">>
NoneInt == -1
NoError == <<"None", 0, 0>>

\* variant: the delay grows linearly with the attempt
MutPow2Linear(n) == 2 * n

\* 2 ** attempt
Pow2(n) == 2 ^ n

----------------------------------------------------------------------------
(* Transport: what one network call can be answered with *)

Statuses == {200, 404, 500}

Response(status, body, ms) ==
    [kind |-> "response", status |-> status, body |-> body, ms |-> ms]
ClientError(body, ms) ==
    [kind |-> "ClientError", status |-> 0, body |-> body, ms |-> ms]
TimeoutError(body, ms) ==
    [kind |-> "TimeoutError", status |-> 0, body |-> body, ms |-> ms]

\* the n-th answer of a call carries the token n as its body; a round trip that
\* ends in success is fast or slow, one that fails is slow
Answers(n) ==
    {Response(200, n, ms) : ms \in Latencies}
    \cup {Response(s, n, SlowMs) : s \in Statuses \ {200}}
    \cup {ClientError(n, SlowMs), TimeoutError(n, SlowMs)}

\* the body of a 200 answer may carry the key "cached"
CachedFlags == BOOLEAN

\* the answers of a call, those of status 200 also with an explicit cached flag
FlaggedAnswers(n) ==
    Answers(n)
    \cup {r @@ [cached |-> f] : r \in {a \in Answers(n) : a.kind = "response"
                                                         /\ a.status = 200},
                                f \in CachedFlags}

\* line 206 of client.py: result.get('cached', False)
ResponseCached(r) == IF "cached" \in DOMAIN r THEN r.cached ELSE FALSE

----------------------------------------------------------------------------
(* ClientMetrics *)

ZeroMetrics ==
    [total_requests |-> 0, cache_hits |-> 0, total_latency_ms |-> 0, errors |-> 0]

RECURSIVE GCD(_, _)
GCD(a, b) == IF b = 0 THEN a ELSE GCD(b, a % b)

\* the quotient a / b of two counters, b > 0, as a fraction in lowest terms
Quotient(a, b) == <<a \div GCD(a, b), b \div GCD(a, b)>>
\* the literal 0.0
ZeroRate == <<0, 1>>

\* variant: the hits are related to the requests that did not fail
MutCacheHitRateOverSuccesses(m) ==
    IF m.total_requests = 0 THEN ZeroRate
    ELSE IF m.total_requests = m.errors THEN ZeroRate
    ELSE Quotient(m.cache_hits, m.total_requests - m.errors)

\* lines 184-188
cache_hit_rate(m) ==
    IF m.total_requests = 0 THEN ZeroRate
    ELSE Quotient(m.cache_hits, m.total_requests)

\* lines 190-194
average_latency_ms(m) ==
    IF m.total_requests = 0 THEN ZeroRate
    ELSE Quotient(m.total_latency_ms, m.total_requests)

\* lines 196-200
error_rate(m) ==
    IF m.total_requests = 0 THEN ZeroRate
    ELSE Quotient(m.errors, m.total_requests)

----------------------------------------------------------------------------
(* Outcome of a call *)

NoOutcome ==
    [kind |-> "none", type |-> "", msg |-> "", status |-> 0, code |-> "",
     details |-> 0, request_id |-> 0, cache_hit |-> FALSE, duration_ms |-> 0]

\* str(response.status)
StatusStr(status) ==
    IF status = 200 THEN "200" ELSE IF status = 404 THEN "404" ELSE "500"

Raise(type, msg, status, code, details) ==
    [NoOutcome EXCEPT !.kind = "error", !.type = type, !.msg = msg,
                      !.status = status, !.code = code, !.details = details]

----------------------------------------------------------------------------
(* FaaSClient: cache key and request body *)

HexOf(c) == IF c = "a" THEN "a" ELSE IF c = ":" THEN "3" ELSE "b"

RECURSIVE PadHex(_, _)
PadHex(s, n) == IF Len(s) >= n THEN SubSeq(s, 1, n) ELSE PadHex(s \o <<"0">>, n)

\* hashlib.md5(content).hexdigest(): a fixed-width hex string; the digest is
\* taken collision-free on the bounded contents (each character is one digit)
_get_cache_key(content) ==
    PadHex([i \in 1..Len(content) |-> HexOf(content[i])], DigestLen)

\* f"{command}:{image}"
CacheContent(command, image) == command \o <<":">> \o image

\* variant: an explicit key is overwritten whenever caching is enabled
MutDerivedCacheKeyAlways(enabled, key, command, image) ==
    IF enabled
    THEN _get_cache_key(CacheContent(command, image))
    ELSE key

\* lines 372-373
DerivedCacheKey(enabled, key, command, image) ==
    IF enabled /\ (key = None \/ key = <<>>)
    THEN _get_cache_key(CacheContent(command, image))
    ELSE key

\* variant: the runtime is mixed into the hashed content
MutBuildPayloadRuntimeInKey(enabled, cfg_runtime, a) ==
    LET runtime == IF a.runtime = "None" THEN cfg_runtime ELSE a.runtime
        timeout_ms == IF a.timeout_ms = NoneInt \/ a.timeout_ms = 0
                      THEN DefaultTimeoutMs ELSE a.timeout_ms
        key == DerivedCacheKey(enabled, a.cache_key,
                               a.command \o (IF runtime = "auto" THEN <<>> ELSE <<"a">>),
                               a.image)
        base == [command |-> a.command, image |-> a.image,
                 runtime |-> runtime, timeout_ms |-> timeout_ms]
        p1 == IF a.env_vars /= <<>> THEN base @@ [env_vars |-> a.env_vars] ELSE base
        p2 == IF a.working_dir /= "" THEN p1 @@ [working_dir |-> a.working_dir] ELSE p1
    IN  IF key /= None /\ key /= <<>> THEN p2 @@ [cache_key |-> key] ELSE p2

\* lines 368-388
BuildPayload(enabled, cfg_runtime, a) ==
    LET runtime == IF a.runtime = "None" THEN cfg_runtime ELSE a.runtime
        timeout_ms == IF a.timeout_ms = NoneInt \/ a.timeout_ms = 0
                      THEN DefaultTimeoutMs ELSE a.timeout_ms
        key == DerivedCacheKey(enabled, a.cache_key, a.command, a.image)
        base == [command |-> a.command, image |-> a.image,
                 runtime |-> runtime, timeout_ms |-> timeout_ms]
        p1 == IF a.env_vars /= <<>> THEN base @@ [env_vars |-> a.env_vars] ELSE base
        p2 == IF a.working_dir /= "" THEN p1 @@ [working_dir |-> a.working_dir] ELSE p1
    IN  IF key /= None /\ key /= <<>> THEN p2 @@ [cache_key |-> key] ELSE p2

ExecuteArgs(command, image, runtime, env_vars, working_dir, timeout_ms, cache_key) ==
    [command |-> command, image |-> image, runtime |-> runtime,
     env_vars |-> env_vars, working_dir |-> working_dir,
     timeout_ms |-> timeout_ms, cache_key |-> cache_key]

----------------------------------------------------------------------------
(* FaaSPlatformClient: request ids and requests *)

Nonces == {1, 2}

\* f'{prefix}-{timestamp}-{random_suffix}': the clock and os.urandom are free
_generate_id(prefix, nonce) == <<prefix, nonce>>

ExecutionRequest(id, code, mode, env, checkpoint, branch_from) ==
    [id |-> id, code |-> code, mode |-> mode, env |-> env, timeout |-> NoneInt,
     checkpoint |-> checkpoint, branch_from |-> branch_from]

execute_ephemeral(code, env, nonce) ==
    ExecutionRequest(_generate_id("ephemeral", nonce), code, "ephemeral", env, None, None)

execute_cached(code, env, nonce) ==
    ExecutionRequest(_generate_id("cached", nonce), code, "cached", env, None, None)

execute_checkpointed(code, env, checkpoint, nonce) ==
    ExecutionRequest(_generate_id("checkpoint", nonce), code, "checkpointed", env,
                     checkpoint, None)

execute_branched(code, branch_from, env, nonce) ==
    ExecutionRequest(_generate_id("branch", nonce), code, "branched", env,
                     None, branch_from)

----------------------------------------------------------------------------
(* Construction *)

Runtimes == {"docker", "firecracker", "auto"}
ConfigRuntime == "auto"

NoArgs == ExecuteArgs(<<>>, <<>>, "None", <<>>, "", NoneInt, None)
NoPayload == [command |-> <<>>]
NoCall == [args |-> NoArgs, cache_enabled |-> FALSE, payload |-> NoPayload]

IdleCall ==
    /\ pc = "idle"
    /\ attempt = 0
    /\ elapsed_ms = 0
    /\ payload = NoPayload
    /\ args = NoArgs
    /\ last_error = NoError
    /\ sent = <<>>
    /\ responses = <<>>
    /\ delays = <<>>
    /\ outcome = NoOutcome
    /\ metrics0 = ZeroMetrics

\* FaaSClient.__init__ / FaaSPlatformClient.__init__
Construct(Kinds, Retries) ==
    /\ client \in Kinds
    /\ max_retries \in Retries
    /\ cache_enabled \in (IF client = "FaaSClient" THEN BOOLEAN ELSE {FALSE})
    /\ metrics = ZeroMetrics
    /\ IdleCall
    /\ calls = 0
    /\ this_call = NoCall
    /\ prev_call = NoCall

\* no concurrent task exists
NoTasks == tasks = <<>>
\* no parallel_map, race or chain exists
NoParallelMap == pm = <<>>
NoRace == rc = <<>>
NoChain == fl = <<>>
\* no fork over branches was asked for
NoFork == fk = <<>>
\* none of these exists
NoWrapper == sh = <<>>
NoStream == sl = <<>>
NoGroups == NoParallelMap /\ NoRace /\ NoChain /\ NoFork /\ NoWrapper /\ NoStream

\* the object is constructed with credential k; no session exists yet
Keyed(k) ==
    /\ built = "yes"
    /\ api_key = k
    /\ session = NoSession
    /\ wire = <<>>

ExtIdle == NoTasks /\ NoGroups /\ Keyed(<<"k">>)

\* FaaSClient.__init__ of a further instance, which the caller uses from then on
FaaSNewClient(Retries) ==
    /\ built = "yes"
    /\ client = "FaaSClient"
    /\ pc = "idle"
    /\ calls >= 1
    /\ calls < MaxCalls
    /\ max_retries' \in Retries
    /\ cache_enabled' \in BOOLEAN
    /\ metrics' = ZeroMetrics
    /\ attempt' = 0
    /\ elapsed_ms' = 0
    /\ payload' = NoPayload
    /\ args' = NoArgs
    /\ last_error' = NoError
    /\ sent' = <<>>
    /\ responses' = <<>>
    /\ delays' = <<>>
    /\ outcome' = NoOutcome
    /\ metrics0' = ZeroMetrics
    /\ UNCHANGED <<ext, authVars,
                   client, pc, calls, this_call, prev_call>>
    /\ session' = NoSession
    /\ wire' = <<>>

----------------------------------------------------------------------------
(* FaaSClient.execute *)

\* lines 366-392: defaults, cache key, request body, loop entry
FaaSBegin(Args) ==
    /\ built = "yes"
    /\ client = "FaaSClient"
    /\ pc = "idle"
    /\ calls < MaxCalls
    /\ \E a \in Args :
          /\ args' = a
          /\ payload' = BuildPayload(cache_enabled, ConfigRuntime, a)
    /\ this_call' = [args |-> args', cache_enabled |-> cache_enabled,
                     payload |-> payload']
    /\ prev_call' = this_call
    /\ calls' = calls + 1
    /\ attempt' = 0
    /\ elapsed_ms' = 0
    /\ last_error' = NoError
    /\ sent' = <<>>
    /\ responses' = <<>>
    /\ delays' = <<>>
    /\ outcome' = NoOutcome
    /\ metrics0' = metrics
    /\ pc' = IF max_retries > 0 THEN "post" ELSE "exhausted"
    /\ UNCHANGED <<ext, authVars,
                   client, max_retries, cache_enabled, metrics>>
    /\ wire' = <<>>
    /\ UNCHANGED session

\* lines 393-394: exponential backoff before a retry
FaaSBackoff ==
    /\ client = "FaaSClient"
    /\ pc = "backoff"
    /\ delays' = Append(delays, FaaSBackoffBaseMs * Pow2(attempt))
    /\ elapsed_ms' = elapsed_ms + FaaSBackoffBaseMs * Pow2(attempt)
    /\ pc' = "post"
    /\ UNCHANGED <<ext, authVars, netVars,
                   client, max_retries, cache_enabled, metrics, attempt, payload,
                   last_error, sent, responses, outcome, calls, args, metrics0,
                   this_call, prev_call>>

\* variant: the loop bound is off by one, so one attempt too many is made
MutFaaSAfterFailureExtra == IF attempt < max_retries THEN "backoff" ELSE "exhausted"

\* where the loop goes after a failed attempt (continue / fall out of the loop)
FaaSAfterFailure == IF attempt + 1 < max_retries THEN "backoff" ELSE "exhausted"

\* lines 405-412: metrics and the non-200 branch
FaaSOnErrorStatus(r, now) ==
    /\ metrics' = [metrics EXCEPT !.total_requests = @ + 1,
                                  !.total_latency_ms = @ + now,
                                  !.errors = @ + 1]
    /\ last_error' = <<"HTTP", r.status, r.body>>
    /\ attempt' = attempt + 1
    /\ pc' = FaaSAfterFailure
    /\ outcome' = outcome

\* lines 405-432: metrics, cache-hit inference and the result
FaaSOnSuccess(r, now) ==
    LET cache_hit == now < CacheHitThresholdMs IN
    /\ metrics' = [metrics EXCEPT !.total_requests = @ + 1,
                                  !.total_latency_ms = @ + now,
                                  !.cache_hits = @ + (IF cache_hit THEN 1 ELSE 0)]
    /\ outcome' = [NoOutcome EXCEPT !.kind = "result", !.type = "ExecutionResult",
                                    !.request_id = r.body, !.status = r.status,
                                    !.cache_hit = cache_hit, !.duration_ms = now]
    /\ pc' = "idle"
    /\ UNCHANGED <<last_error, attempt>>

\* lines 434-436: every exception of the attempt is absorbed
FaaSOnException(r) ==
    /\ metrics' = [metrics EXCEPT !.errors = @ + 1]
    /\ last_error' = <<r.kind, r.status, r.body>>
    /\ attempt' = attempt + 1
    /\ pc' = FaaSAfterFailure
    /\ outcome' = outcome

\* line 399: json=payload
FaaSWireBody == payload

\* a network call as the transport sees it
Wire(op, method, headers) == [op |-> op, method |-> method, headers |-> headers]
\* no headers argument is passed
NoHeaders == <<>>
\* `if self.config.api_key` / `not self.api_key`: None and '' are falsy
Falsy(key) == key = None \/ key = <<>>
\* f"Bearer {api_key}"
Bearer(key) == <<"Bearer", key>>

\* line 400: the Authorization header, if an API key is configured
FaaSExecuteHeaders ==
    IF Falsy(api_key) THEN NoHeaders ELSE [Authorization |-> Bearer(api_key)]

\* lines 397-402
FaaSWire == Wire("execute", "POST", FaaSExecuteHeaders)

\* lines 396-436: one attempt, the network call answered out of Rs and what is
\* done with its answer
FaaSAttempt(Rs) ==
    /\ \E r \in Rs :
          /\ sent' = Append(sent, FaaSWireBody)
          /\ responses' = Append(responses, r)
          /\ elapsed_ms' = elapsed_ms + r.ms
          /\ IF r.kind = "response"
             THEN IF r.status /= 200
                  THEN FaaSOnErrorStatus(r, elapsed_ms + r.ms)
                  ELSE FaaSOnSuccess(r, elapsed_ms + r.ms)
             ELSE FaaSOnException(r)
    /\ UNCHANGED <<ext, authVars,
                   client, max_retries, cache_enabled, payload, delays, calls,
                   args, metrics0, this_call, prev_call>>
    /\ wire' = Append(wire, FaaSWire)
    /\ session' = LazySession(session)

\* lines 396-436: one pass of the retry loop
FaaSPost ==
    /\ client = "FaaSClient"
    /\ pc = "post"
    /\ FaaSAttempt(Answers(Len(sent) + 1))

\* the same pass, the answer stating or not stating whether it was cached
FaaSPostFlagged ==
    /\ client = "FaaSClient"
    /\ pc = "post"
    /\ FaaSAttempt(FlaggedAnswers(Len(sent) + 1))

\* line 438: the loop ran out
FaaSExhausted ==
    /\ client = "FaaSClient"
    /\ pc = "exhausted"
    /\ outcome' = Raise("Exception", "Execution failed after retries",
                        last_error[2], "", last_error[3])
    /\ pc' = "idle"
    /\ UNCHANGED <<ext, authVars, netVars,
                   client, max_retries, cache_enabled, metrics, attempt, elapsed_ms,
                   payload, last_error, sent, responses, delays, calls, args, metrics0,
                   this_call, prev_call>>

----------------------------------------------------------------------------
(* FaaSPlatformClient.execute_* -> execute -> _request *)

\* lines 210-260 and 192-197: the request is built, then handed to _request
PlatformEnter(Requests) ==
    /\ built = "yes"
    /\ pc = "idle"
    /\ calls < MaxCalls
    /\ payload' \in Requests
    /\ calls' = calls + 1
    /\ attempt' = 0
    /\ sent' = <<>>
    /\ responses' = <<>>
    /\ delays' = <<>>
    /\ outcome' = NoOutcome
    /\ pc' = IF max_retries > 0 THEN "post" ELSE "exhausted"
    /\ UNCHANGED <<authVars,
                   client, max_retries, cache_enabled, metrics, elapsed_ms,
                   last_error, args, metrics0, this_call, prev_call>>
    /\ wire' = <<>>
    /\ UNCHANGED session

\* lines 210-260: any of the four execute_* methods
PlatformBegin(Codes, Envs) ==
    /\ client = "FaaSPlatformClient"
    /\ PlatformEnter({execute_ephemeral(code, env, nonce) :
                         code \in Codes, env \in Envs, nonce \in Nonces}
                     \cup {execute_cached(code, env, nonce) :
                             code \in Codes, env \in Envs, nonce \in Nonces}
                     \cup {execute_checkpointed(code, env, None, nonce) :
                             code \in Codes, env \in Envs, nonce \in Nonces}
                     \cup {execute_branched(code, <<"s">>, env, nonce) :
                             code \in Codes, env \in Envs, nonce \in Nonces})
    /\ UNCHANGED ext

\* lines 165-167 and 183-185: sleep, then the next attempt
PlatformBackoff ==
    /\ client = "FaaSPlatformClient"
    /\ pc = "backoff"
    /\ delays' = Append(delays, PlatformBackoffBaseMs * Pow2(attempt))
    /\ attempt' = attempt + 1
    /\ pc' = "post"
    /\ UNCHANGED <<ext, authVars, netVars,
                   client, max_retries, cache_enabled, metrics, elapsed_ms, payload,
                   last_error, sent, responses, outcome, calls, args, metrics0,
                   this_call, prev_call>>

\* variant: the retry test is off by one, so the last retry is never made
MutPlatformOnResponseOffByOne(r) ==
    IF r.status >= 500
    THEN IF attempt < max_retries - 2
         THEN pc' = "backoff" /\ outcome' = outcome
         ELSE /\ pc' = "idle"
              /\ outcome' = Raise("PlatformError", "Server error", r.status, "", 0)
    ELSE IF r.status >= 400
    THEN /\ pc' = "idle"
         /\ outcome' = Raise("PlatformError", "Request failed", r.status,
                             StatusStr(r.status), r.body)
    ELSE /\ pc' = "idle"
         /\ outcome' = [NoOutcome EXCEPT !.kind = "result",
                                         !.type = "ExecutionResponse",
                                         !.request_id = r.body,
                                         !.status = r.status,
                                         !.cache_hit = ResponseCached(r)]

\* lines 164-178 and 199-208: what _request and execute do with a response
PlatformOnResponse(r) ==
    IF r.status >= 500
    THEN IF attempt < max_retries - 1
         THEN pc' = "backoff" /\ outcome' = outcome
         ELSE /\ pc' = "idle"
              /\ outcome' = Raise("PlatformError", "Server error", r.status, "", 0)
    ELSE IF r.status >= 400
    THEN /\ pc' = "idle"
         /\ outcome' = Raise("PlatformError", "Request failed", r.status,
                             StatusStr(r.status), r.body)
    ELSE /\ pc' = "idle"
         /\ outcome' = [NoOutcome EXCEPT !.kind = "result",
                                         !.type = "ExecutionResponse",
                                         !.request_id = r.body,
                                         !.status = r.status,
                                         !.cache_hit = ResponseCached(r)]

\* lines 180-186: what _request does with an exception of the transport
PlatformOnException(r) ==
    IF r.kind = "TimeoutError"
    THEN /\ pc' = "idle"
         /\ outcome' = Raise("PlatformError", "Request timeout", 0, "TIMEOUT", 0)
    ELSE IF attempt < max_retries - 1
         THEN pc' = "backoff" /\ outcome' = outcome
         ELSE /\ pc' = "idle"
              /\ outcome' = Raise("PlatformError", "Network error", 0, "", r.body)

\* variant: the request id is generated anew for every attempt
MutPlatformWireBodyFreshId ==
    [payload EXCEPT !.id = _generate_id(payload.id[1], payload.id[2] + attempt)]

\* lines 161-163 and 195-197: json=json_data, the asdict of the request
PlatformWireBody == payload

\* lines 153-157: the headers of every _request
PlatformHeaders ==
    [Authorization |-> Bearer(api_key), Content_Type |-> "application/json"]

\* lines 161-163 and 199-204: POST /execute
PlatformWire == Wire("execute", "POST", PlatformHeaders)

\* lines 159-186: one attempt of _request, answered out of Rs
PlatformAttempt(Rs) ==
    /\ \E r \in Rs :
          /\ sent' = Append(sent, PlatformWireBody)
          /\ responses' = Append(responses, r)
          /\ IF r.kind = "response" THEN PlatformOnResponse(r)
                                    ELSE PlatformOnException(r)
    /\ UNCHANGED <<ext, authVars,
                   client, max_retries, cache_enabled, metrics, attempt, elapsed_ms,
                   payload, last_error, delays, calls, args, metrics0, this_call,
                   prev_call>>
    /\ wire' = Append(wire, PlatformWire)
    /\ session' = LazySession(session)

\* lines 159-186: one pass of the retry loop of _request
PlatformRequest ==
    /\ client = "FaaSPlatformClient"
    /\ pc = "post"
    /\ PlatformAttempt(Answers(Len(sent) + 1))

\* the same pass, the answer stating or not stating whether it was cached
PlatformRequestFlagged ==
    /\ client = "FaaSPlatformClient"
    /\ pc = "post"
    /\ PlatformAttempt(FlaggedAnswers(Len(sent) + 1))

\* line 188: the loop ran out without an attempt raising
PlatformExhausted ==
    /\ client = "FaaSPlatformClient"
    /\ pc = "exhausted"
    /\ outcome' = Raise("PlatformError", "Max retries exceeded", 0, "", 0)
    /\ pc' = "idle"
    /\ UNCHANGED <<ext, authVars, netVars,
                   client, max_retries, cache_enabled, metrics, attempt, elapsed_ms,
                   payload, last_error, sent, responses, delays, calls, args, metrics0,
                   this_call, prev_call>>

----------------------------------------------------------------------------
(* Specification of the retry loops and the metrics *)

RetryCommands == {<<"a">>, <<"a", ":">>}
RetryImages == {<<"a">>}

RetryArgs ==
    {ExecuteArgs(c, i, "None", <<>>, "", NoneInt, k) :
        c \in RetryCommands, i \in RetryImages, k \in {None}}

Init == Construct({"FaaSClient", "FaaSPlatformClient"}, 0..MaxRetriesBound) /\ ExtIdle

Next ==
    \/ FaaSBegin(RetryArgs)
    \/ FaaSBackoff
    \/ FaaSPost
    \/ FaaSExhausted
    \/ PlatformBegin(RetryCommands, RetryImages)
    \/ PlatformBackoff
    \/ PlatformRequest
    \/ PlatformExhausted

Spec == Init /\ [][Next]_vars

----------------------------------------------------------------------------
(* Specification of the request building of FaaSClient.execute *)

KeyCommands == {<<"a">>, <<"a", ":">>}
KeyImages == {<<"a">>, <<":", "a">>}
KeyCacheKeys == {None, <<>>, <<"k">>}
KeyRetries == {1}

KeyArgs ==
    {ExecuteArgs(c, i, "None", <<>>, "", NoneInt, k) :
        c \in KeyCommands, i \in KeyImages, k \in KeyCacheKeys}
    \cup
    {ExecuteArgs(c, i, "docker", << <<"K", "v">> >>, "/w", 1000, k) :
        c \in KeyCommands, i \in KeyImages, k \in KeyCacheKeys}

InitKey == Construct({"FaaSClient"}, KeyRetries) /\ ExtIdle

NextKey ==
    \/ FaaSNewClient(KeyRetries)
    \/ FaaSBegin(KeyArgs)
    \/ FaaSPost
    \/ FaaSExhausted

SpecKey == InitKey /\ [][NextKey]_vars

----------------------------------------------------------------------------
(* Vocabulary of the properties *)

Is5xx(r) == r.kind = "response" /\ r.status >= 500
Is4xx(r) == r.kind = "response" /\ r.status >= 400 /\ r.status < 500
IsSuccess(r) == r.kind = "response" /\ r.status = 200
IsNetworkFailure(r) == r.kind = "ClientError"
IsTimeout(r) == r.kind = "TimeoutError"

\* the running call has returned or raised
Finished == pc = "idle" /\ outcome.kind /= "none"
\* the running call will make a further network call
WillCallAgain == pc \in {"post", "backoff"}

RetryExhaustedError ==
    /\ outcome.kind = "error"
    /\ outcome.msg \in {"Server error", "Network error", "Max retries exceeded",
                        "Execution failed after retries"}

----------------------------------------------------------------------------
(* C1: when the transport answers 5xx on the first k attempts, k < max_retries,
   and then answers successfully, the call keeps retrying through the k
   failures, and on the success it returns a result built from the response of
   attempt k+1, after exactly k+1 network calls. *)
C1_RetryThenSuccess ==
    \A k \in 0..(max_retries - 1) :
        /\ ( /\ Len(responses) = k
             /\ k >= 1
             /\ \A i \in 1..k : Is5xx(responses[i]) )
           => (WillCallAgain /\ outcome.kind = "none")
        /\ ( /\ Len(responses) >= k + 1
             /\ \A i \in 1..k : Is5xx(responses[i])
             /\ IsSuccess(responses[k + 1]) )
           => ( /\ Finished
                /\ outcome.kind = "result"
                /\ outcome.request_id = responses[k + 1].body
                /\ Len(sent) = k + 1
                /\ Len(responses) = k + 1 )

C1_Witness ==
    /\ max_retries = 3
    /\ Len(responses) = 3
    /\ Is5xx(responses[1]) /\ Is5xx(responses[2]) /\ IsSuccess(responses[3])
    /\ outcome.kind = "result"
    /\ outcome.request_id = 3

(* C2: when every attempt fails with a 5xx response or a transport failure, the
   call makes exactly max_retries network calls, never more, then fails with a
   retry-exhausted error, and never returns a result. *)
C2_ExhaustsBudget ==
    (\A i \in 1..Len(responses) :
        Is5xx(responses[i]) \/ IsNetworkFailure(responses[i]))
    => ( /\ Len(sent) <= max_retries
         /\ outcome.kind /= "result"
         /\ (Len(sent) < max_retries /\ calls > 0) => ~Finished
         /\ Finished => (Len(sent) = max_retries /\ RetryExhaustedError) )

C2_Witness ==
    /\ Finished
    /\ max_retries = 3
    /\ Len(sent) = 3
    /\ Is5xx(responses[1]) /\ IsNetworkFailure(responses[2]) /\ Is5xx(responses[3])
    /\ RetryExhaustedError

(* C3: after a 4xx response on the first attempt the call fails at once: exactly
   one network call, no retry and no backoff delay, and the error carries the
   status and the body of that response. *)
C3_ClientErrorNotRetried ==
    (Len(responses) >= 1 /\ Is4xx(responses[1]))
    => ( /\ Len(sent) = 1
         /\ delays = <<>>
         /\ ~WillCallAgain
         /\ Finished => ( /\ outcome.kind = "error"
                          /\ outcome.status = responses[1].status
                          /\ outcome.details = responses[1].body ) )

(* C4: a timeout of the transport during any attempt propagates at once as a
   dedicated timeout error: no network call follows the attempt that timed
   out, whatever budget is left. *)
C4_TimeoutPropagates ==
    \A i \in 1..Len(responses) :
        IsTimeout(responses[i])
        => ( /\ i = Len(sent)
             /\ ~WillCallAgain
             /\ Finished => (outcome.kind = "error" /\ outcome.code = "TIMEOUT") )

----------------------------------------------------------------------------
(* Vocabulary of the cache-key properties *)

HexChars == {"0", "1", "2", "3", "4", "5", "6", "7", "8", "9",
             "a", "b", "c", "d", "e", "f"}

HasKey(c) == "cache_key" \in DOMAIN c.payload
SentKey(c) == c.payload.cache_key
\* the call was made with caching enabled and no explicit cache key
KeyDerivedFor(c) == c.cache_enabled /\ c.args.cache_key = None
SamePair(c, d) == c.args.command = d.args.command /\ c.args.image = d.args.image

(* C5: two execute calls with distinct (command, image) pairs, both with caching
   enabled and no explicit cache key, send different cache keys (the digest
   being collision-free). *)
C5_DistinctPairsDistinctKeys ==
    ( /\ calls >= 2
      /\ KeyDerivedFor(this_call) /\ KeyDerivedFor(prev_call)
      /\ ~SamePair(this_call, prev_call) )
    => ( /\ HasKey(this_call) /\ HasKey(prev_call)
         /\ SentKey(this_call) /= SentKey(prev_call) )

(* C6: two execute calls with the same (command, image) pair, both with caching
   enabled and no explicit cache key, send the same cache key of 32 hex
   characters, whatever the instance, the earlier calls, the metrics and the
   other request fields are. *)
C6_KeyDeterministic ==
    ( /\ calls >= 2
      /\ KeyDerivedFor(this_call) /\ KeyDerivedFor(prev_call)
      /\ SamePair(this_call, prev_call) )
    => ( /\ HasKey(this_call) /\ HasKey(prev_call)
         /\ SentKey(this_call) = SentKey(prev_call)
         /\ Len(SentKey(this_call)) = 32
         /\ \A i \in 1..Len(SentKey(this_call)) : SentKey(this_call)[i] \in HexChars
         /\ \A i \in 1..Len(sent) : sent[i].cache_key = SentKey(prev_call) )

C6_Witness ==
    /\ calls = 2
    /\ KeyDerivedFor(this_call) /\ KeyDerivedFor(prev_call)
    /\ SamePair(this_call, prev_call)
    /\ this_call.args.runtime /= prev_call.args.runtime
    /\ this_call.args.env_vars /= prev_call.args.env_vars
    /\ this_call.args.working_dir /= prev_call.args.working_dir
    /\ this_call.args.timeout_ms /= prev_call.args.timeout_ms
    /\ metrics0.total_requests > 0
    /\ metrics0.errors > 0
    /\ Len(sent) = 1

\* the key execute derives for the parameters of call c
DerivedFor(c) == _get_cache_key(CacheContent(c.args.command, c.args.image))

(* C7, as claimed: a cache key is derived if and only if caching is enabled and
   no explicit cache key is given; an explicit cache key is sent unchanged;
   with caching disabled and no explicit key the request has no cache_key. *)
C7_AsClaimed ==
    calls >= 1 =>
        LET c == this_call
            explicit == c.args.cache_key /= None
        IN  /\ explicit => (HasKey(c) /\ SentKey(c) = c.args.cache_key)
            /\ (~explicit /\ c.cache_enabled) => (HasKey(c) /\ SentKey(c) = DerivedFor(c))
            /\ (~explicit /\ ~c.cache_enabled) => ~HasKey(c)

(* C7, amended: an empty explicit cache key counts as none.  A cache key is
   derived if and only if caching is enabled and no non-empty explicit cache
   key is given; a non-empty explicit cache key is sent unchanged; with caching
   disabled and no non-empty explicit key the request has no cache_key. *)
C7_Amended ==
    calls >= 1 =>
        LET c == this_call
            explicit == c.args.cache_key \notin {None, <<>>}
        IN  /\ explicit => (HasKey(c) /\ SentKey(c) = c.args.cache_key)
            /\ (~explicit /\ c.cache_enabled) => (HasKey(c) /\ SentKey(c) = DerivedFor(c))
            /\ (~explicit /\ ~c.cache_enabled) => ~HasKey(c)
            /\ \A i \in 1..Len(sent) : sent[i] = c.payload

C7_Witness ==
    /\ calls >= 1
    /\ this_call.cache_enabled
    /\ this_call.args.cache_key = <<"k">>
    /\ Len(sent) = 1
    /\ sent[1].cache_key = <<"k">>

----------------------------------------------------------------------------
(* C8: within one call the request, with its client-generated id, is built
   before the first network call, and every attempt sends a body identical to
   the one of the first attempt. *)
C8_SameBodyEveryAttempt ==
    \A i \in 1..Len(sent) : sent[i] = sent[1] /\ sent[i] = payload

C8_Witness ==
    /\ client = "FaaSPlatformClient"
    /\ Len(sent) = 3
    /\ sent[3].id = sent[1].id
    /\ Is5xx(responses[1]) /\ IsNetworkFailure(responses[2])

(* C9: each FaaSClient.execute call of a client that is allowed at least one
   attempt increases total_requests by exactly 1, whether it succeeds at once,
   succeeds after retries, or fails. *)
C9_OneRequestPerCall ==
    (client = "FaaSClient" /\ max_retries >= 1 /\ Finished)
    => metrics.total_requests = metrics0.total_requests + 1

(* C10: a FaaSClient.execute call of a client that is allowed at least one
   attempt increases errors by exactly 1 when it fails and leaves errors
   unchanged when it returns a result, also after retried failures. *)
C10_OneErrorPerFailedCall ==
    (client = "FaaSClient" /\ max_retries >= 1 /\ Finished)
    => /\ outcome.kind = "error" => metrics.errors = metrics0.errors + 1
       /\ outcome.kind = "result" => metrics.errors = metrics0.errors

----------------------------------------------------------------------------
\* the fraction q is the quotient a / b
IsQuotient(q, a, b) == q[2] > 0 /\ q[1] * b = a * q[2]

(* C11: the derived rates cache_hit_rate, average_latency_ms and error_rate of
   ClientMetrics are 0 whenever total_requests is 0, and otherwise equal
   cache_hits/total_requests, total_latency_ms/total_requests and
   errors/total_requests; after one request counted as a cache hit and one
   not, cache_hit_rate is exactly one half. *)
C11_DerivedRates ==
    LET m == metrics
        n == m.total_requests
    IN  /\ n = 0 => ( /\ cache_hit_rate(m) = ZeroRate
                      /\ average_latency_ms(m) = ZeroRate
                      /\ error_rate(m) = ZeroRate )
        /\ n > 0 => ( /\ IsQuotient(cache_hit_rate(m), m.cache_hits, n)
                      /\ IsQuotient(average_latency_ms(m), m.total_latency_ms, n)
                      /\ IsQuotient(error_rate(m), m.errors, n) )
        /\ (n = 2 /\ m.cache_hits = 1) => cache_hit_rate(m) = <<1, 2>>

C11_Witness ==
    /\ metrics.total_requests = 2
    /\ metrics.cache_hits = 1
    /\ metrics.errors = 1
    /\ cache_hit_rate(metrics) = <<1, 2>>
    /\ error_rate(metrics) = <<1, 2>>

----------------------------------------------------------------------------
(* Concurrent FaaSClient.execute calls: asyncio tasks on one client and one
   event loop.  A task runs without interruption from one await to the next;
   the event loop picks which suspended task is resumed. *)

NTasks == 2
TaskIds == 1..NTasks
TaskRetries == {1, 2}

\* the variables of the single sequential caller
seqVars == <<pc, attempt, elapsed_ms, payload, last_error, sent, responses, delays,
             outcome, calls, args, metrics0, this_call, prev_call>>

\* a coroutine created by client.execute(...) and not yet started
NewTask ==
    [pc |-> "new", attempt |-> 0, elapsed_ms |-> 0, result |-> "none",
     incs |-> ZeroMetrics, seen |-> ZeroMetrics]

\* what one round trip of a task can be answered with
TaskAnswers ==
    {Response(200, 0, ms) : ms \in Latencies}
    \cup {Response(500, 0, SlowMs), ClientError(0, SlowMs)}

\* variant: the counters are written from the values the task saw before it
\* was suspended
MutCounterBaseStale(t) == tasks[t].seen

\* the value of self.metrics that a `+=` statement of task t reads: the
\* statement holds no await, so it is the value at the moment it runs
CounterBase(t) == metrics

\* task t runs until its next await (or its end): its fields, the increments
\* it performed in this step, and the shared counters after the step
TaskStep(t, fields, d) ==
    LET base == CounterBase(t)
        after == [total_requests |-> base.total_requests + d.total_requests,
                  cache_hits |-> base.cache_hits + d.cache_hits,
                  total_latency_ms |-> base.total_latency_ms + d.total_latency_ms,
                  errors |-> base.errors + d.errors]
        i == tasks[t].incs
        incs == [total_requests |-> i.total_requests + d.total_requests,
                 cache_hits |-> i.cache_hits + d.cache_hits,
                 total_latency_ms |-> i.total_latency_ms + d.total_latency_ms,
                 errors |-> i.errors + d.errors]
    IN  /\ metrics' = (IF d = ZeroMetrics THEN metrics ELSE after)
        /\ tasks' = [tasks EXCEPT ![t] = fields @@ [incs |-> incs, seen |-> metrics']
                                         @@ tasks[t]]
        /\ UNCHANGED <<client, max_retries, cache_enabled, seqVars, authVars,
                       netVars, pm, rc, fl, fk, sh, sl>>

\* lines 393 and 438: the loop test after a failed attempt
TaskAfterFailure(t) ==
    IF tasks[t].attempt + 1 < max_retries
    THEN [pc |-> "backoff", attempt |-> tasks[t].attempt + 1]
    ELSE [pc |-> "done", attempt |-> tasks[t].attempt + 1, result |-> "error"]

\* lines 366-403: the task starts and runs to its first await, session.post
TaskStart(t) ==
    /\ tasks[t].pc = "new"
    /\ IF max_retries > 0
       THEN TaskStep(t, [pc |-> "post"], ZeroMetrics)
       ELSE TaskStep(t, [pc |-> "done", result |-> "error"], ZeroMetrics)

\* lines 393-403: the sleep is over, the task runs to session.post
TaskBackoff(t) ==
    /\ tasks[t].pc = "backoff"
    /\ TaskStep(t, [pc |-> "post",
                    elapsed_ms |-> tasks[t].elapsed_ms
                                   + FaaSBackoffBaseMs * Pow2(tasks[t].attempt)],
                ZeroMetrics)

\* lines 403-414 and 434-436: the round trip is over; the task counts the
\* request and runs to `await response.text()` or `await response.json()`, or
\* counts the exception and goes round the loop
TaskResponse(t) ==
    /\ tasks[t].pc = "post"
    /\ \E r \in TaskAnswers :
          LET now == tasks[t].elapsed_ms + r.ms IN
          IF r.kind /= "response"
          THEN TaskStep(t, [elapsed_ms |-> now] @@ TaskAfterFailure(t),
                        [ZeroMetrics EXCEPT !.errors = 1])
          ELSE IF r.status /= 200
          THEN TaskStep(t, [pc |-> "text", elapsed_ms |-> now],
                        [ZeroMetrics EXCEPT !.total_requests = 1,
                                            !.total_latency_ms = now,
                                            !.errors = 1])
          ELSE TaskStep(t, [pc |-> "json", elapsed_ms |-> now],
                        [ZeroMetrics EXCEPT !.total_requests = 1,
                                            !.total_latency_ms = now])

\* lines 411-412: the body of the error response has arrived; `continue`
TaskText(t) ==
    /\ tasks[t].pc = "text"
    /\ TaskStep(t, TaskAfterFailure(t), ZeroMetrics)

\* lines 414-432: the body has arrived; cache-hit inference and the return
TaskJson(t) ==
    /\ tasks[t].pc = "json"
    /\ TaskStep(t, [pc |-> "done", result |-> "result"],
                [ZeroMetrics EXCEPT !.cache_hits =
                    IF tasks[t].elapsed_ms < CacheHitThresholdMs THEN 1 ELSE 0])

InitTasks ==
    /\ Construct({"FaaSClient"}, TaskRetries)
    /\ Keyed(<<"k">>)
    /\ NoGroups
    /\ tasks = [t \in TaskIds |-> NewTask]

NextTasks ==
    \/ \E t \in TaskIds : TaskStart(t)
    \/ \E t \in TaskIds : TaskBackoff(t)
    \/ \E t \in TaskIds : TaskResponse(t)
    \/ \E t \in TaskIds : TaskText(t)
    \/ \E t \in TaskIds : TaskJson(t)

SpecTasks == InitTasks /\ [][NextTasks]_vars

----------------------------------------------------------------------------
RECURSIVE SumIncs(_, _)
\* the sum over the tasks 1..n of the increments they performed on counter f
SumIncs(n, f) == IF n = 0 THEN 0 ELSE tasks[n].incs[f] + SumIncs(n - 1, f)

Counters == {"total_requests", "total_latency_ms", "cache_hits", "errors"}

(* C12: when several FaaSClient.execute calls run concurrently as asyncio tasks
   on one client, no increment of total_requests, total_latency_ms, cache_hits
   or errors is lost: at every suspension point of every interleaving, and so
   after all tasks finish, each counter equals the sum of the increments
   performed by the individual calls. *)
C12_NoLostIncrement ==
    \A f \in Counters : metrics[f] = SumIncs(NTasks, f)

C12_Witness ==
    /\ \A t \in TaskIds : tasks[t].pc = "done"
    /\ tasks[1].result = "result" /\ tasks[2].result = "error"
    /\ tasks[1].incs.cache_hits = 1
    /\ tasks[2].incs.errors = 2
    /\ tasks[2].incs.total_requests = 1
    /\ metrics.errors = 2
    /\ metrics.total_requests = 2
    /\ metrics.cache_hits = 1
    /\ metrics.total_latency_ms = FastMs + SlowMs

----------------------------------------------------------------------------
(* Construction and the single-request operations of FaaSClient *)

\* the object does not exist yet
Unbuilt ==
    /\ built = "no"
    /\ api_key = None
    /\ session = NoSession
    /\ wire = <<>>

\* FaaSClient.__init__ with a ClientConfig: no requirement on api_key
FaaSInit(Keys) ==
    /\ client = "FaaSClient"
    /\ built = "no"
    /\ api_key' \in Keys
    /\ built' = "yes"
    /\ UNCHANGED <<ext, netVars, client, max_retries, cache_enabled, metrics,
                   seqVars>>

\* variant: the constructor accepts an absent key
MutPlatformKeyRequiredNever(key) == FALSE

\* line 112: `if not self.api_key`
PlatformKeyRequired(key) == Falsy(key)

\* line 111: api_key or os.getenv('FAAS_API_KEY', '')
PlatformKeyOf(arg, env) ==
    IF ~Falsy(arg) THEN arg ELSE IF env = None THEN <<>> ELSE env

\* lines 110-126: FaaSPlatformClient.__init__
PlatformInit(Keys, Envs) ==
    /\ client = "FaaSPlatformClient"
    /\ built = "no"
    /\ \E arg \in Keys, env \in Envs :
          /\ api_key' = PlatformKeyOf(arg, env)
          /\ IF PlatformKeyRequired(api_key')
             THEN /\ built' = "error"
                  /\ outcome' = Raise("PlatformError", "API key required", 0, "", 0)
             ELSE /\ built' = "yes"
                  /\ outcome' = outcome
    /\ UNCHANGED <<ext, netVars, client, max_retries, cache_enabled, metrics, pc,
                   attempt, elapsed_ms, payload, last_error, sent, responses,
                   delays, calls, args, metrics0, this_call, prev_call>>

\* what the single network call of an operation can be answered with
OpAnswers == Answers(1) \cup {Response(202, 1, SlowMs)}

\* variant: the operation counts its request, and its failure, as execute does
MutSingleCallMetricsCounted(m, r) ==
    [m EXCEPT !.total_requests = @ + 1,
              !.errors = @ + (IF r.kind = "response" /\ r.status = 200 THEN 0 ELSE 1)]

\* lines 497-682: no statement of these operations touches self.metrics
SingleCallMetrics(m, r) == m

\* an operation of FaaSClient that makes one network call and no retry: the
\* call goes out through self.session with the given headers; a response with
\* a status in Accepted gives the result, any other raises Exception(msg), and
\* an exception of the transport propagates
FaaSSingleCall(op, method, body, headers, Accepted, msg) ==
    /\ built = "yes"
    /\ pc = "idle"
    /\ calls < MaxCalls
    /\ calls' = calls + 1
    /\ sent' = <<body>>
    /\ wire' = <<Wire(op, method, headers)>>
    /\ session' = LazySession(session)
    /\ \E r \in OpAnswers :
          /\ responses' = <<r>>
          /\ outcome' =
               IF r.kind /= "response"
               THEN Raise(r.kind, "", 0, "", r.body)
               ELSE IF r.status \in Accepted
               THEN [NoOutcome EXCEPT !.kind = "result", !.type = op,
                                      !.request_id = r.body, !.status = r.status]
               ELSE Raise("Exception", msg, r.status, "", r.body)
          /\ metrics' = SingleCallMetrics(metrics, r)
    /\ attempt' = 0
    /\ elapsed_ms' = 0
    /\ payload' = NoPayload
    /\ args' = NoArgs
    /\ last_error' = NoError
    /\ delays' = <<>>
    /\ UNCHANGED <<ext, authVars, client, max_retries, cache_enabled, pc,
                   metrics0, this_call, prev_call>>

\* lines 497-540
fork_execution(Parents, Commands) ==
    /\ client = "FaaSClient"
    /\ \E parent_id \in Parents, command \in Commands :
        FaaSSingleCall("fork_execution", "POST",
                       [command |-> command, mode |-> "branched",
                        branch_from |-> parent_id, runtime |-> ConfigRuntime],
                       NoHeaders, {200}, "Fork failed")

\* lines 542-573
create_snapshot(Containers) ==
    /\ client = "FaaSClient"
    /\ \E container_id \in Containers :
        FaaSSingleCall("create_snapshot", "POST",
                       [container_id |-> container_id, name |-> <<"n">>,
                        description |-> None],
                       NoHeaders, {200}, "Snapshot creation failed")

\* lines 575-595
prewarm(Images) ==
    /\ client = "FaaSClient"
    /\ \E image \in Images :
        FaaSSingleCall("prewarm", "POST",
                       [image |-> image, count |-> 1, runtime |-> ConfigRuntime],
                       NoHeaders, {200, 202}, "Pre-warming failed")

\* lines 597-613: the status of the response is not looked at
stream_logs(Executions) ==
    /\ client = "FaaSClient"
    /\ \E execution_id \in Executions :
        FaaSSingleCall("stream_logs", "GET", [execution_id |-> execution_id],
                       NoHeaders, Statuses \cup {202}, "")

\* lines 615-667
get_metrics ==
    /\ client = "FaaSClient"
    /\ FaaSSingleCall("get_metrics", "GET", NoPayload, NoHeaders, {200},
                      "Failed to get metrics")

\* lines 673-682
health_check ==
    /\ client = "FaaSClient"
    /\ FaaSSingleCall("health_check", "GET", NoPayload, NoHeaders, {200},
                      "Health check failed")

\* lines 669-671: the metrics object itself is returned; no network call
get_client_metrics ==
    /\ client = "FaaSClient"
    /\ built = "yes"
    /\ pc = "idle"
    /\ calls < MaxCalls
    /\ calls' = calls + 1
    /\ outcome' = [NoOutcome EXCEPT !.kind = "result", !.type = "get_client_metrics",
                                    !.details = metrics]
    /\ sent' = <<>>
    /\ responses' = <<>>
    /\ wire' = <<>>
    /\ attempt' = 0
    /\ elapsed_ms' = 0
    /\ payload' = NoPayload
    /\ args' = NoArgs
    /\ last_error' = NoError
    /\ delays' = <<>>
    /\ UNCHANGED <<ext, authVars, session, client, max_retries, cache_enabled,
                   metrics, pc, metrics0, this_call, prev_call>>

----------------------------------------------------------------------------
(* Specification of construction, credentials and outbound calls *)

AuthKeys == {None, <<>>, <<"k">>}
AuthEnvs == {None, <<>>, <<"e">>}
AuthRetries == {1}
AuthNames == {<<"a">>}

AuthArgs == {ExecuteArgs(<<"a">>, <<"a">>, "None", <<>>, "", NoneInt, None)}

InitAuth ==
    /\ Construct({"FaaSClient", "FaaSPlatformClient"}, AuthRetries)
    /\ Unbuilt
    /\ NoTasks /\ NoGroups

NextAuth ==
    \/ FaaSInit(AuthKeys)
    \/ PlatformInit(AuthKeys, AuthEnvs)
    \/ FaaSBegin(AuthArgs)
    \/ FaaSPost
    \/ FaaSExhausted
    \/ fork_execution(AuthNames, AuthNames)
    \/ create_snapshot(AuthNames)
    \/ prewarm(AuthNames)
    \/ stream_logs(AuthNames)
    \/ get_metrics
    \/ health_check
    \/ get_client_metrics
    \/ PlatformBegin(AuthNames, AuthNames)
    \/ PlatformRequest

SpecAuth == InitAuth /\ [][NextAuth]_vars

----------------------------------------------------------------------------
\* an API key is configured on the constructed client
KeyConfigured == built = "yes" /\ ~Falsy(api_key)
Authorized(w) ==
    /\ "Authorization" \in DOMAIN w.headers
    /\ w.headers.Authorization = Bearer(api_key)

(* C13: when an API key is configured, every outbound call of the client
   carries the credential: execute, fork_execution, create_snapshot, prewarm,
   stream_logs, get_metrics and health_check of FaaSClient, and every call made
   through FaaSPlatformClient._request, send the Authorization header. *)
C13_EveryCallAuthorized ==
    KeyConfigured => \A i \in 1..Len(wire) : Authorized(wire[i])

(* C14: constructing a FaaSPlatformClient with no API key (none passed and none
   in the environment) fails with a configuration error at construction: no
   such client is ever constructed, no transport session is created for it and
   no network call is made. *)
C14_NoKeyNoClient ==
    (client = "FaaSPlatformClient" /\ built /= "no" /\ Falsy(api_key))
    => ( /\ built = "error"
         /\ outcome.kind = "error"
         /\ outcome.type = "PlatformError"
         /\ outcome.msg = "API key required"
         /\ session = NoSession
         /\ wire = <<>>
         /\ sent = <<>>
         /\ calls = 0 )

C14_Witness ==
    /\ client = "FaaSPlatformClient"
    /\ built = "error"
    /\ api_key = <<>>
    /\ outcome.msg = "API key required"
    /\ session = NoSession

----------------------------------------------------------------------------
(* fork_execution asked to run a set of named branches *)

ForkDurations == {50, 500}
ForkIds == {"slow", "fast"}

\* a declared branch and the duration the platform will report for it
ForkBranch(id, duration_ms) == [id |-> id, duration_ms |-> duration_ms]

\* lists of one or two branches with distinct ids, in declaration order
ForkBranchLists ==
    {<<ForkBranch(i, d)>> : i \in ForkIds, d \in ForkDurations}
    \cup {<<ForkBranch(ij[1], d), ForkBranch(ij[2], e)>> :
            ij \in {p \in ForkIds \X ForkIds : p[1] /= p[2]},
            d \in ForkDurations, e \in ForkDurations}

\* the platform's selection for strategy `fastest`: the minimum reported
\* duration, ties broken by declaration order
ServerFastest(branches) ==
    LET first == CHOOSE i \in 1..Len(branches) :
                    \A j \in 1..Len(branches) :
                        \/ branches[i].duration_ms < branches[j].duration_ms
                        \/ /\ branches[i].duration_ms = branches[j].duration_ms
                           /\ i <= j
    IN  branches[first].id

\* the body of the platform's 200 answer to a fork over branches
ForkData(branches) ==
    [results |-> [i \in 1..Len(branches) |->
                    [branch_id |-> branches[i].id,
                     duration_ms |-> branches[i].duration_ms]],
     selected_branch |-> ServerFastest(branches),
     selection_reason |-> "fastest_execution"]

\* data.get(key, default)
DataGet(data, key, default) == IF key \in DOMAIN data THEN data[key] ELSE default

\* lines 530-540: the ExecutionResult built from the response body
ForkResultOf(data) ==
    [kind |-> "result", type |-> "ExecutionResult",
     request_id |-> DataGet(data, "request_id", <<>>),
     output |-> DataGet(data, "output", None),
     logs |-> DataGet(data, "logs", None),
     error |-> DataGet(data, "error", None),
     duration_ms |-> DataGet(data, "duration_ms", 0),
     stdout |-> DataGet(data, "stdout", None),
     stderr |-> DataGet(data, "stderr", None),
     exit_code |-> DataGet(data, "exit_code", None)]

ForkError(type, msg) == [kind |-> "error", type |-> type, msg |-> msg]

\* lines 497-502: the parameters parent_id and command have no default
ForkRequired == {"parent_id", "command"}

\* lines 497-540: fork_execution called with the keyword arguments kw.  The call
\* is bound to (self, parent_id, command, **kwargs); a missing parent_id or
\* command is a TypeError before the body runs.  Otherwise the remaining
\* keywords are merged into the body of one POST, and the result is built from
\* the known fields of the answer.
ForkOverBranches(Shapes, BranchLists, Strategies) ==
    /\ client = "FaaSClient"
    /\ built = "yes"
    /\ pc = "idle"
    /\ calls < MaxCalls
    /\ calls' = calls + 1
    /\ \E shape \in Shapes, branches \in BranchLists, strategy \in Strategies :
          LET kw == IF shape = "keywords"
                    THEN [branches |-> branches, image |-> <<"a">>,
                          strategy |-> strategy]
                    ELSE [parent_id |-> <<"p">>, command |-> <<"c">>,
                          branches |-> branches, strategy |-> strategy]
              kwargs == [k \in DOMAIN kw \ ForkRequired |-> kw[k]]
              body == kwargs @@
                      [command |-> DataGet(kw, "command", None), mode |-> "branched",
                       branch_from |-> DataGet(kw, "parent_id", None),
                       runtime |-> ConfigRuntime]
          IN  IF ~(ForkRequired \subseteq DOMAIN kw)
              THEN /\ fk' = [kw |-> kw, branches |-> branches, strategy |-> strategy,
                             result |-> ForkError("TypeError",
                                                  "missing required arguments")]
                   /\ UNCHANGED <<netVars, sent, responses>>
              ELSE /\ sent' = <<body>>
                   /\ wire' = <<Wire("fork_execution", "POST", NoHeaders)>>
                   /\ session' = LazySession(session)
                   /\ \E r \in Answers(1) :
                         /\ responses' = <<r>>
                         /\ fk' = [kw |-> kw, branches |-> branches,
                                   strategy |-> strategy,
                                   result |->
                                     IF r.kind /= "response"
                                     THEN ForkError(r.kind, "")
                                     ELSE IF r.status /= 200
                                     THEN ForkError("Exception", "Fork failed")
                                     ELSE ForkResultOf(ForkData(branches))]
    /\ UNCHANGED <<tasks, pm, rc, fl, sh, sl, authVars, client, max_retries, cache_enabled,
                   metrics, pc, attempt, elapsed_ms, payload, last_error, delays,
                   outcome, args, metrics0, this_call, prev_call>>

ForkShapes == {"keywords", "positional"}
ForkStrategies == {"fastest", "parallel"}

InitFork ==
    /\ Construct({"FaaSClient"}, {1})
    /\ Keyed(<<"k">>)
    /\ NoTasks /\ NoGroups

NextFork ==
    \/ ForkOverBranches(ForkShapes, ForkBranchLists, ForkStrategies)
    \/ fork_execution(AuthNames, AuthNames)

SpecFork == InitFork /\ [][NextFork]_vars

----------------------------------------------------------------------------
\* the ids of the branches whose results the value returned by the fork holds
ForkResultIds(res) ==
    IF "results" \in DOMAIN res
    THEN {res.results[i].branch_id : i \in 1..Len(res.results)}
    ELSE {}

(* C15: fork_execution over a set of named branches with strategy fastest
   returns a result that contains every branch's result and selects the branch
   with the minimum reported duration, ties broken by declaration order
   (durations [500ms, 50ms] select the 50ms branch). *)
C15_FastestSelected ==
    (fk /= <<>> /\ fk.strategy = "fastest")
    => ( /\ fk.result.kind = "result"
         /\ ForkResultIds(fk.result) = {fk.branches[i].id : i \in 1..Len(fk.branches)}
         /\ "selected_branch" \in DOMAIN fk.result
         /\ fk.result.selected_branch = ServerFastest(fk.branches) )

----------------------------------------------------------------------------
(* FaaSPlatformClient.parallel_map.  Each create_branch, create_snapshot and
   delete_snapshot is a call of _request, which ends in a result or in an
   error; each fn(item, snapshot) is the caller's coroutine, which returns or
   raises.  asyncio.gather starts all its awaitables; without
   return_exceptions the first exception is raised to the awaiter at once and
   the other awaitables keep running. *)

MaxItems == 3

\* everything a parallel_map, a race or a chain leaves alone
callerVars == <<authVars, netVars, client, max_retries, cache_enabled, metrics,
                seqVars>>

PMapIdle(n, base_snapshot) ==
    [n |-> n, base_snapshot |-> base_snapshot, phase |-> "create",
     created |-> [i \in 1..n |-> "pending"],
     workers |-> [i \in 1..n |-> "none"],
     deletes |-> [i \in 1..n |-> "none"],
     primary |-> "none", outcome |-> "none"]

AllIn(f, S) == \A i \in DOMAIN f : f[i] \in S

\* variant: the deletes are gathered without return_exceptions
MutCleanupReturnExceptionsOff == FALSE

\* line 393: return_exceptions=True
CleanupReturnExceptions == TRUE

\* lines 391-394: the finally block starts; one delete per snapshot is gathered.
\* With no snapshot the gather is over at once and the primary outcome stands.
PMapEnterCleanup(p, primary) ==
    IF p.n = 0
    THEN [p EXCEPT !.phase = "done", !.primary = primary, !.outcome = primary]
    ELSE [p EXCEPT !.phase = "cleanup", !.primary = primary,
                   !.deletes = [i \in 1..p.n |-> "running"]]

\* lines 372-389: all the creations are over and well
PMapCreated(p) ==
    IF p.base_snapshot /\ p.n > 0
    THEN \* line 377: Snapshot(id=b.snapshot_id, **{}) lacks the required fields
         [p EXCEPT !.phase = "done", !.outcome = "TypeError"]
    ELSE IF p.n = 0
    THEN \* nothing to run: results = [], then the finally block
         PMapEnterCleanup(p, "result")
    ELSE [p EXCEPT !.phase = "work", !.workers = [i \in 1..p.n |-> "running"]]

\* lines 365-383: parallel_map is called and gathers the creations
PMapBegin(Sizes) ==
    /\ client = "FaaSPlatformClient"
    /\ built = "yes"
    /\ pm = <<>>
    /\ \E n \in Sizes, base_snapshot \in BOOLEAN :
          pm' = IF n = 0 THEN PMapCreated(PMapIdle(n, base_snapshot))
                         ELSE PMapIdle(n, base_snapshot)
    /\ UNCHANGED <<tasks, rc, fl, fk, sh, sl, callerVars>>

\* lines 374-383: one create_branch / create_snapshot is over
PMapCreateDone ==
    /\ pm /= <<>>
    /\ \E i \in 1..pm.n, ok \in BOOLEAN :
          /\ pm.created[i] = "pending"
          /\ LET p == [pm EXCEPT !.created[i] = IF ok THEN "ok" ELSE "failed"] IN
             pm' = IF pm.phase /= "create"
                   THEN p   \* parallel_map has raised; the creation ran on
                   ELSE IF ~ok
                   THEN [p EXCEPT !.phase = "done", !.outcome = "CreateError"]
                   ELSE IF AllIn(p.created, {"ok"})
                   THEN PMapCreated(p)
                   ELSE p
    /\ UNCHANGED <<tasks, rc, fl, fk, sh, sl, callerVars>>

\* lines 385-389: one fn(item, snapshot) is over
PMapWorkerDone ==
    /\ pm /= <<>>
    /\ \E i \in 1..pm.n, ok \in BOOLEAN :
          /\ pm.workers[i] = "running"
          /\ LET p == [pm EXCEPT !.workers[i] = IF ok THEN "ok" ELSE "raised"] IN
             pm' = IF pm.phase /= "work"
                   THEN p   \* the gather has raised; the worker ran on
                   ELSE IF ~ok
                   THEN PMapEnterCleanup(p, "WorkerError")
                   ELSE IF AllIn(p.workers, {"ok"})
                   THEN PMapEnterCleanup(p, "result")
                   ELSE p
    /\ UNCHANGED <<tasks, rc, fl, fk, sh, sl, callerVars>>

\* lines 391-394: one delete_snapshot is over
PMapDeleteDone ==
    /\ pm /= <<>>
    /\ \E i \in 1..pm.n, ok \in BOOLEAN :
          /\ pm.deletes[i] = "running"
          /\ LET p == [pm EXCEPT !.deletes[i] = IF ok THEN "ok" ELSE "failed"] IN
             pm' = IF pm.phase /= "cleanup"
                   THEN p
                   ELSE IF ~ok /\ ~CleanupReturnExceptions
                   THEN [p EXCEPT !.phase = "done", !.outcome = "DeleteError"]
                   ELSE IF AllIn(p.deletes, {"ok", "failed"})
                   THEN [p EXCEPT !.phase = "done", !.outcome = p.primary]
                   ELSE p
    /\ UNCHANGED <<tasks, rc, fl, fk, sh, sl, callerVars>>

InitPMap ==
    /\ Construct({"FaaSPlatformClient"}, {1})
    /\ Keyed(<<"k">>)
    /\ NoTasks /\ NoRace /\ NoChain /\ NoFork /\ NoWrapper /\ NoStream
    /\ pm = <<>>

NextPMap ==
    \/ PMapBegin(0..MaxItems)
    \/ PMapCreateDone
    \/ PMapWorkerDone
    \/ PMapDeleteDone

SpecPMap == InitPMap /\ [][NextPMap]_vars

----------------------------------------------------------------------------
\* parallel_map has returned or raised
PMapOver == pm /= <<>> /\ pm.phase = "done"
\* the delete call for snapshot i was made
DeleteIssued(i) == pm.deletes[i] \in {"ok", "failed"}

(* C16: parallel_map over N items always issues a cleanup (delete) call for each
   of the N created snapshots/branches before it returns or raises, even if
   one of the N worker invocations raises, both when a base snapshot is given
   (branches are created) and when none is given (snapshots are created). *)
C16_CleanupForAllCreated ==
    (PMapOver /\ AllIn(pm.created, {"ok"}))
    => \A i \in 1..pm.n : DeleteIssued(i)

(* C17: if creating the branch/snapshot for some item fails, every
   branch/snapshot already created for the other items is deleted before
   parallel_map raises. *)
C17_CleanupAfterPartialCreation ==
    (PMapOver /\ \E j \in 1..pm.n : pm.created[j] = "failed")
    => \A i \in 1..pm.n : pm.created[i] = "ok" => DeleteIssued(i)

(* C18: a failure of any cleanup (delete) call during the teardown of
   parallel_map never changes its outcome: if the workers all succeeded it
   still returns their results, and if a worker raised it still raises the
   worker's error, never the cleanup error; a failing delete does not prevent
   the delete calls for the other snapshots. *)
C18_CleanupFailureSuppressed ==
    (PMapOver /\ \E j \in 1..pm.n : pm.deletes[j] = "failed")
    => ( /\ pm.outcome /= "DeleteError"
         /\ AllIn(pm.workers, {"ok"}) => pm.outcome = "result"
         /\ (\E i \in 1..pm.n : pm.workers[i] = "raised")
                => pm.outcome = "WorkerError"
         /\ \A i \in 1..pm.n : DeleteIssued(i) )

C18_Witness ==
    /\ PMapOver
    /\ pm.n = 2
    /\ pm.workers[1] = "ok" /\ pm.workers[2] = "raised"
    /\ pm.deletes[1] = "failed" /\ pm.deletes[2] = "ok"
    /\ pm.outcome = "WorkerError"

----------------------------------------------------------------------------
(* FaaSPlatformClient.race.  The list handed to asyncio.wait holds coroutine
   objects, not tasks: an interpreter before 3.11 wraps them in tasks, one
   from 3.11 on rejects them with TypeError. *)

MaxRace == 3

\* whether asyncio.wait of the running interpreter wraps coroutine objects
Interpreters == {"wraps", "forbids"}

RaceIdle(n, interpreter) ==
    [n |-> n, interpreter |-> interpreter, phase |-> "waiting",
     reqs |-> [i \in 1..n |-> "created"],
     order |-> <<>>, picked |-> 0, outcome |-> "none"]

\* lines 398-399: the coroutines are created and handed to asyncio.wait
RaceBegin(Sizes) ==
    /\ client = "FaaSPlatformClient"
    /\ built = "yes"
    /\ rc = <<>>
    /\ \E n \in Sizes, interpreter \in Interpreters :
          rc' = IF n = 0
                THEN [RaceIdle(n, interpreter) EXCEPT !.phase = "done",
                                                      !.outcome = "ValueError"]
                ELSE IF interpreter = "forbids"
                THEN [RaceIdle(n, interpreter) EXCEPT !.phase = "done",
                                                      !.outcome = "TypeError"]
                ELSE [RaceIdle(n, interpreter) EXCEPT
                         !.reqs = [i \in 1..n |-> "running"]]
    /\ UNCHANGED <<tasks, pm, fl, fk, sh, sl, callerVars>>

\* lines 192-208: one self.execute(req) returns or raises; the first to do so
\* wakes the wait, which resumes race at a later turn of the event loop
RaceComplete ==
    /\ rc /= <<>>
    /\ rc.phase \in {"waiting", "woken"}
    /\ \E i \in 1..rc.n, ok \in BOOLEAN :
          /\ rc.reqs[i] = "running"
          /\ rc' = [rc EXCEPT !.reqs[i] = IF ok THEN "returned" ELSE "raised",
                              !.order = Append(@, i),
                              !.phase = "woken"]
    /\ UNCHANGED <<tasks, pm, fl, fk, sh, sl, callerVars>>

\* lines 399-405: wait returns (done, pending); the pending tasks are
\* cancelled and the outcome of an arbitrary member of done is the outcome
RaceResume ==
    /\ rc /= <<>>
    /\ rc.phase = "woken"
    /\ \E i \in 1..rc.n :
          /\ rc.reqs[i] \in {"returned", "raised"}
          /\ rc' = [rc EXCEPT !.phase = "done",
                              !.picked = i,
                              !.outcome = IF rc.reqs[i] = "returned"
                                          THEN "result" ELSE "ExecuteError",
                              !.reqs = [j \in 1..rc.n |->
                                          IF rc.reqs[j] = "running"
                                          THEN "cancelled" ELSE rc.reqs[j]]]
    /\ UNCHANGED <<tasks, pm, fl, fk, sh, sl, callerVars>>

InitRace ==
    /\ Construct({"FaaSPlatformClient"}, {1})
    /\ Keyed(<<"k">>)
    /\ NoTasks /\ NoParallelMap /\ NoChain /\ NoFork /\ NoWrapper /\ NoStream
    /\ rc = <<>>

NextRace ==
    \/ RaceBegin(0..MaxRace)
    \/ RaceComplete
    \/ RaceResume

SpecRace == InitRace /\ [][NextRace]_vars

----------------------------------------------------------------------------
\* race has returned or raised
RaceOver == rc /= <<>> /\ rc.phase = "done"

(* C19: race(requests) dispatches all requests concurrently and returns the
   outcome of a request that completed no later than every other request;
   when race returns, every request that had not completed has had local
   cancellation requested. *)
C19_FirstCompletedWins ==
    (RaceOver /\ rc.n >= 1)
    => ( /\ \A i \in 1..rc.n : rc.reqs[i] \in {"returned", "raised", "cancelled"}
         /\ rc.picked \in 1..rc.n
         /\ rc.picked = rc.order[1]
         /\ rc.outcome = IF rc.reqs[rc.picked] = "returned"
                         THEN "result" ELSE "ExecuteError" )

----------------------------------------------------------------------------
(* FluentExecutor: a chain of queued operations over a FaaSPlatformClient *)

MaxOps == 3
MaxRuns == 2

\* the snapshot id the platform returns for the k-th step of a run; the
\* platform answers a step the same way in every run
ChainSnapshotId(k) == <<"snap", k>>

\* what result.snapshot of the answer to step k can be (Optional[str])
ChainSnapshots(k) == {None, ChainSnapshotId(k)}

\* lines 535-538: FluentExecutor.__init__; the other fields record the run
\* under way: its entry point, the requests it issued and the snapshots it
\* was answered with, how it ended, the requests and snapshot as the last run
\* left them, and the operations, requests and answers of the run before
NewChain ==
    [operations |-> <<>>, current_snapshot |-> None,
     running |-> "no", runs |-> 0, requests |-> <<>>, answers |-> <<>>,
     outcome |-> "none",
     at_rest |-> [requests |-> <<>>, current_snapshot |-> None],
     prev |-> [operations |-> <<>>, requests |-> <<>>, answers |-> <<>>]]

\* a request of the chain as the client is asked to make it
ChainRequest(op, ref) == [op |-> op, ref |-> ref]

\* variant: the step is executed as soon as it is added
MutChainEnqueueEager(f, op) ==
    [f EXCEPT !.operations = Append(@, op),
              !.requests = Append(@, ChainRequest(op, None)),
              !.current_snapshot = ChainSnapshotId(1)]

\* lines 546, 557, 569: self.operations.append(op)
ChainEnqueue(f, op) == [f EXCEPT !.operations = Append(@, op)]

ChainBuilding ==
    /\ client = "FaaSPlatformClient"
    /\ fl /= <<>>
    /\ fl.running = "no"
    /\ Len(fl.operations) < MaxOps

\* lines 540-547
from_env ==
    /\ ChainBuilding
    /\ fl' = ChainEnqueue(fl, "from_env")
    /\ UNCHANGED <<tasks, pm, rc, fk, sh, sl, callerVars>>

\* lines 549-558
exec ==
    /\ ChainBuilding
    /\ fl' = ChainEnqueue(fl, "exec")
    /\ UNCHANGED <<tasks, pm, rc, fk, sh, sl, callerVars>>

\* lines 560-570
branch ==
    /\ ChainBuilding
    /\ fl' = ChainEnqueue(fl, "branch")
    /\ UNCHANGED <<tasks, pm, rc, fk, sh, sl, callerVars>>

\* variant: a run that ends drops the current snapshot
MutChainEndDropsSnapshot(f, how) ==
    [f EXCEPT !.running = "no", !.outcome = how,
              !.current_snapshot = None,
              !.at_rest = [requests |-> f.requests,
                           current_snapshot |-> None]]

\* the run is over with the given outcome
ChainEnd(f, how) ==
    [f EXCEPT !.running = "no", !.outcome = how,
              !.at_rest = [requests |-> f.requests,
                           current_snapshot |-> f.current_snapshot]]

\* lines 572-583: after the loop, run returns last_result; snapshot returns
\* the current snapshot or raises
ChainAfterLoop(f) ==
    IF f.running = "run"
    THEN ChainEnd(f, "returned")
    ELSE IF Falsy(f.current_snapshot)
    THEN ChainEnd(f, "No snapshot created")
    ELSE ChainEnd(f, "returned")

\* lines 572-583: run() or snapshot() is called; nothing of the executor is
\* reset
ChainRun(Entries) ==
    /\ client = "FaaSPlatformClient"
    /\ fl /= <<>>
    /\ fl.running = "no"
    /\ fl.runs < MaxRuns
    /\ \E entry \in Entries :
          LET f == [fl EXCEPT !.running = entry, !.runs = @ + 1,
                              !.requests = <<>>, !.answers = <<>>,
                              !.outcome = "none",
                              !.prev = [operations |-> fl.operations,
                                        requests |-> fl.requests,
                                        answers |-> fl.answers]]
          IN  fl' = IF fl.operations = <<>> THEN ChainAfterLoop(f) ELSE f
    /\ UNCHANGED <<tasks, pm, rc, fk, sh, sl, callerVars>>

\* variant: the next operation is started without awaiting the one before
MutChainReadyAlways(f) == TRUE

\* lines 575-576: `await op()` inside the loop: the next operation is called
\* when the one before has returned
ChainReady(f) == Len(f.requests) = Len(f.answers)

\* variant: a branch is asked for whatever the current snapshot is
MutBranchNeedsSnapshotNever(f) == FALSE

\* lines 563-564: `if not self.current_snapshot: raise PlatformError`
BranchNeedsSnapshot(f) == Falsy(f.current_snapshot)

\* lines 543, 552-554, 566: the call the operation makes on the client, with
\* the reference it passes: execute_cached('', env), execute_checkpointed(
\* code, checkpoint=self.current_snapshot), create_branch(
\* self.current_snapshot)
ChainRequestOf(f, op) ==
    ChainRequest(op, IF op = "from_env" THEN None ELSE f.current_snapshot)

\* lines 541-543, 550-554, 561-566 and 575-576: the loop calls the next queued
\* operation, which runs to its await
ChainIssue ==
    /\ fl /= <<>>
    /\ fl.running /= "no"
    /\ ChainReady(fl)
    /\ Len(fl.requests) < Len(fl.operations)
    /\ LET op == fl.operations[Len(fl.requests) + 1] IN
       fl' = IF op = "branch" /\ BranchNeedsSnapshot(fl)
             THEN ChainEnd(fl, "No snapshot to branch from")
             ELSE [fl EXCEPT !.requests = Append(@, ChainRequestOf(fl, op))]
    /\ UNCHANGED <<tasks, pm, rc, fk, sh, sl, callerVars>>

\* variant: create_branch does not move the current snapshot
MutChainAdvanceNotOnBranch(f, op, s) ==
    IF op = "branch" THEN f ELSE [f EXCEPT !.current_snapshot = s]

\* lines 544, 555, 567: self.current_snapshot = result.snapshot /
\* branch.snapshot_id
ChainAdvance(f, op, s) == [f EXCEPT !.current_snapshot = s]

\* lines 543-544, 552-555, 566-567 and 575-577: the awaited call of the oldest
\* operation in flight returns or raises
ChainComplete ==
    /\ fl /= <<>>
    /\ fl.running /= "no"
    /\ Len(fl.answers) < Len(fl.requests)
    /\ LET k == Len(fl.answers) + 1
           op == fl.operations[k]
           Answered == IF op = "branch" THEN {ChainSnapshotId(k)}
                                        ELSE ChainSnapshots(k)
       IN  \E ok \in BOOLEAN, s \in Answered :
              fl' = IF ~ok
                    THEN ChainEnd(fl, "Request failed")
                    ELSE LET f == ChainAdvance([fl EXCEPT !.answers = Append(@, s)],
                                               op, s)
                         IN  IF Len(f.answers) = Len(f.operations)
                             THEN ChainAfterLoop(f)
                             ELSE f
    /\ UNCHANGED <<tasks, pm, rc, fk, sh, sl, callerVars>>

InitChain ==
    /\ Construct({"FaaSPlatformClient"}, {1})
    /\ Keyed(<<"k">>)
    /\ NoTasks /\ NoParallelMap /\ NoRace /\ NoFork /\ NoWrapper /\ NoStream
    /\ fl = NewChain

NextChain ==
    \/ from_env
    \/ exec
    \/ branch
    \/ ChainRun({"run", "snapshot"})
    \/ ChainIssue
    \/ ChainComplete

SpecChain == InitChain /\ [][NextChain]_vars

----------------------------------------------------------------------------
(* C20: building a state chain issues no network call: from_env, exec and
   branch on FluentExecutor only enqueue a step and leave current_snapshot
   unchanged; requests are issued only once run (or snapshot) is invoked.  So
   a chain never run has issued no request and has no snapshot, and outside a
   run the requests and the snapshot are as the last run left them. *)
C20_BuildingIsLazy ==
    /\ fl.runs = 0 => (fl.requests = <<>> /\ fl.current_snapshot = None)
    /\ fl.running = "no"
          => ( /\ fl.requests = fl.at_rest.requests
               /\ fl.current_snapshot = fl.at_rest.current_snapshot )

C20_Witness ==
    /\ fl.runs = 0
    /\ fl.operations = <<"from_env", "exec", "branch">>
    /\ fl.requests = <<>>
    /\ fl.current_snapshot = None

----------------------------------------------------------------------------
\* a run of the chain is under way
ChainRunning == fl.running /= "no"
\* the reference step k of a run should pass: the snapshot the step before
\* it produced in this run, none for the first step
ChainExpectedRef(k) == IF k = 1 THEN None ELSE fl.answers[k - 1]

(* C21: during one run of a state chain the steps execute strictly in enqueue
   order and sequentially: the request of step i+1 is issued only after step
   i has completed and updated current_snapshot, so at most one step of the
   chain is in flight at any time. *)
C21_StepsSequential ==
    /\ Len(fl.requests) - Len(fl.answers) \in {0, 1}
    /\ \A k \in 1..Len(fl.requests) :
          /\ fl.requests[k].op = fl.operations[k]
          /\ k >= 2 => ( /\ Len(fl.answers) >= k - 1
                         /\ fl.requests[k].op /= "from_env"
                               => fl.requests[k].ref = fl.answers[k - 1] )

C21_Witness ==
    /\ ChainRunning
    /\ fl.operations = <<"from_env", "exec", "branch">>
    /\ Len(fl.requests) = 3
    /\ Len(fl.answers) = 2
    /\ fl.requests[2].ref = ChainSnapshotId(1)
    /\ fl.requests[3].ref = ChainSnapshotId(2)

(* C22: running a state chain twice re-executes all steps from scratch: while
   the platform answers as it did in the first run, the second run issues the
   same requests, with the same checkpoint/branch-origin references, as the
   first run on the fresh chain did. *)
C22_SecondRunFromScratch ==
    (fl.runs = 2 /\ fl.prev.operations = fl.operations)
    => \A k \in 1..Len(fl.requests) :
          ( /\ k <= Len(fl.prev.requests)
            /\ \A j \in 1..(k - 1) :
                  /\ j <= Len(fl.prev.answers)
                  /\ j <= Len(fl.answers)
                  /\ fl.answers[j] = fl.prev.answers[j] )
          => fl.requests[k] = fl.prev.requests[k]

(* C23: a state chain with steps from_env(e), exec(c), branch(), all
   succeeding, ends its run with current_snapshot equal to the snapshot id of
   the branch created by the last step. *)
C23_EndsAtBranchSnapshot ==
    ( /\ ~ChainRunning
      /\ fl.outcome = "returned"
      /\ fl.operations = <<"from_env", "exec", "branch">>
      /\ Len(fl.answers) = 3 )
    => ( /\ fl.requests[3].op = "branch"
         /\ fl.current_snapshot = fl.answers[3]
         /\ fl.current_snapshot = ChainSnapshotId(3) )

C23_Witness ==
    /\ ~ChainRunning
    /\ fl.runs = 1
    /\ fl.outcome = "returned"
    /\ fl.operations = <<"from_env", "exec", "branch">>
    /\ Len(fl.answers) = 3
    /\ fl.requests[3] = ChainRequest("branch", ChainSnapshotId(2))
    /\ fl.current_snapshot = ChainSnapshotId(3)

(* C24: running a branch() step while the chain has no current snapshot fails
   with a PlatformError and issues no branch-creation request to the platform;
   current_snapshot stays empty.  So no branch-creation request is ever made
   without a snapshot, and the run that failed this way made no request for
   that step. *)
C24_BranchNeedsSnapshot ==
    /\ \A k \in 1..Len(fl.requests) :
          fl.requests[k].op = "branch" => ~Falsy(fl.requests[k].ref)
    /\ (~ChainRunning /\ fl.outcome = "No snapshot to branch from")
       => ( /\ Falsy(fl.current_snapshot)
            /\ Len(fl.requests) = Len(fl.answers)
            /\ Len(fl.requests) < Len(fl.operations)
            /\ fl.operations[Len(fl.requests) + 1] = "branch"
            /\ fl.at_rest.current_snapshot = fl.current_snapshot )

C24_Witness ==
    /\ ~ChainRunning
    /\ fl.runs = 1
    /\ fl.outcome = "No snapshot to branch from"
    /\ fl.operations = <<"from_env", "branch">>
    /\ fl.requests = <<ChainRequest("from_env", None)>>
    /\ fl.answers = <<None>>
    /\ fl.current_snapshot = None

(* C25: each exec step of a state chain sends as its checkpoint reference
   exactly the snapshot reference produced by the immediately preceding step
   of the same run (or none if it is the first step), and on success sets
   current_snapshot to the snapshot reference returned for that exec. *)
C25_ExecCheckpointFromPreviousStep ==
    \A k \in 1..Len(fl.requests) :
        fl.requests[k].op = "exec"
        => ( /\ fl.requests[k].ref = ChainExpectedRef(k)
             /\ (Len(fl.answers) = k /\ (ChainRunning \/ fl.outcome = "returned"))
                   => fl.current_snapshot = fl.answers[k] )

----------------------------------------------------------------------------
(* FaaSClient.run_python / run_javascript / run_bash *)

MaxLen == 3

SQ == "'"
DQ == "\""
BS == "\\"
DOLLAR == "$"
\* the backquote (U+0060)
BT == "U+0060"
NL == "\n"
SP == " "

\* the characters a source text is made of
Alphabet == {SQ, DQ, BS, DOLLAR, BT, NL, SP, "a"}

\* the source texts of at most n characters
Texts(n) == UNION {[1..k -> Alphabet] : k \in 0..n}

\* str.replace(old, new) for a one-character old
RECURSIVE Replace(_, _, _)
Replace(s, old, new) ==
    IF s = <<>> THEN <<>>
    ELSE (IF Head(s) = old THEN new ELSE <<Head(s)>>) \o Replace(Tail(s), old, new)

\* variant: the single quote is escaped with a backslash, as run_javascript does
MutPythonEscapeBackslash(code) == Replace(code, SQ, <<BS, SQ>>)

\* line 452: code.replace("'", "'\\''")
PythonEscape(code) == Replace(code, SQ, <<SQ, BS, SQ, SQ>>)

\* line 471: code.replace("\\", "\\\\").replace("'", "\\'")
JavascriptEscape(code) == Replace(Replace(code, BS, <<BS, BS>>), SQ, <<BS, SQ>>)

\* line 490: script.replace("\\", "\\\\").replace('"', '\\"').replace("$", "\\$")
BashEscape(script) ==
    Replace(Replace(Replace(script, BS, <<BS, BS>>), DQ, <<BS, DQ>>),
            DOLLAR, <<BS, DOLLAR>>)

Python3 == <<"p", "y", "t", "h", "o", "n", "3">>
Node == <<"n", "o", "d", "e">>
Sh == <<"s", "h">>
DashC == <<"-", "c">>
DashE == <<"-", "e">>

\* line 454: f"python3 -c '{escaped_code}'"
PythonCommand(code) ==
    Python3 \o <<SP>> \o DashC \o <<SP, SQ>> \o PythonEscape(code) \o <<SQ>>
\* line 473: f"node -e '{escaped_code}'"
JavascriptCommand(code) ==
    Node \o <<SP>> \o DashE \o <<SP, SQ>> \o JavascriptEscape(code) \o <<SQ>>
\* line 492: f'sh -c "{escaped_script}"'
BashCommand(script) ==
    Sh \o <<SP>> \o DashC \o <<SP, DQ>> \o BashEscape(script) \o <<DQ>>

\* lines 455, 474, 493: the image each wrapper names
PythonImage == <<"python:3.11-slim">>
NodeImage == <<"node:18-alpine">>
AlpineImage == <<"alpine:latest">>

WrapperCommand(w, text) ==
    IF w = "run_python" THEN PythonCommand(text)
    ELSE IF w = "run_javascript" THEN JavascriptCommand(text)
    ELSE BashCommand(text)
WrapperImage(w) ==
    IF w = "run_python" THEN PythonImage
    ELSE IF w = "run_javascript" THEN NodeImage
    ELSE AlpineImage

\* the keyword parameters of execute besides command and image, at their defaults
ExecuteDefaults ==
    [runtime |-> "None", env_vars |-> <<>>, working_dir |-> "",
     timeout_ms |-> NoneInt, cache_key |-> None]

\* no additional execution parameters
NoKwargs == <<>>
\* the additional execution parameters (**kwargs) a caller passes
WrapperKwargs ==
    {NoKwargs, [image |-> <<"i">>], [timeout_ms |-> 1000]}

\* self.execute(command=..., image=..., **kwargs): a keyword passed twice
WrapperClash(kwargs) == DOMAIN kwargs \cap {"command", "image"} /= {}

\* lines 453-457, 472-476, 491-495: the call of execute the wrapper makes
WrapperCall(w, text, kwargs) ==
    IF WrapperClash(kwargs)
    THEN [kind |-> "TypeError"]
    ELSE [kind |-> "execute",
          args |-> [k \in DOMAIN ExecuteDefaults \cup {"command", "image"} |->
                      IF k \in DOMAIN kwargs THEN kwargs[k]
                      ELSE IF k = "command" THEN WrapperCommand(w, text)
                      ELSE IF k = "image" THEN WrapperImage(w)
                      ELSE ExecuteDefaults[k]]]

\* lines 366-392 of execute, entered from a wrapper with the parameters a
WrapperExecute(a) ==
    /\ args' = a
    /\ payload' = BuildPayload(cache_enabled, ConfigRuntime, a)
    /\ this_call' = [args |-> args', cache_enabled |-> cache_enabled,
                     payload |-> payload']
    /\ prev_call' = this_call
    /\ calls' = calls + 1
    /\ attempt' = 0
    /\ elapsed_ms' = 0
    /\ last_error' = NoError
    /\ sent' = <<>>
    /\ responses' = <<>>
    /\ delays' = <<>>
    /\ outcome' = NoOutcome
    /\ metrics0' = metrics
    /\ pc' = IF max_retries > 0 THEN "post" ELSE "exhausted"
    /\ wire' = <<>>
    /\ UNCHANGED <<session, metrics>>

\* the binding of execute's parameters fails before execute is entered
WrapperTypeError ==
    /\ outcome' = Raise("TypeError", "got multiple values for keyword argument",
                        0, "", 0)
    /\ UNCHANGED <<netVars, metrics, pc, attempt, elapsed_ms, payload, last_error,
                   sent, responses, delays, calls, args, metrics0, this_call,
                   prev_call>>

\* a convenience wrapper, from its entry to the first await inside execute
WrapperRun(w, Sources, Kwargs) ==
    /\ built = "yes"
    /\ pc = "idle"
    /\ NoWrapper /\ NoStream
    /\ calls < MaxCalls
    /\ \E text \in Sources, kwargs \in Kwargs :
          LET call == WrapperCall(w, text, kwargs) IN
          /\ sh' = [wrapper |-> w, text |-> text, kwargs |-> kwargs,
                    call |-> call.kind]
          /\ IF call.kind = "TypeError"
             THEN WrapperTypeError
             ELSE WrapperExecute(call.args)
    /\ UNCHANGED <<tasks, pm, rc, fl, fk, sl, authVars, client, max_retries,
                   cache_enabled>>

\* lines 440-457
run_python(Sources, Kwargs) ==
    /\ client = "FaaSClient"
    /\ WrapperRun("run_python", Sources, Kwargs)

\* lines 459-476
run_javascript(Sources, Kwargs) ==
    /\ client = "FaaSClient"
    /\ WrapperRun("run_javascript", Sources, Kwargs)

\* lines 478-495
run_bash(Sources, Kwargs) ==
    /\ client = "FaaSClient"
    /\ WrapperRun("run_bash", Sources, Kwargs)

InitShell ==
    /\ Construct({"FaaSClient"}, {1})
    /\ Keyed(<<"k">>)
    /\ NoTasks /\ NoGroups

NextShell ==
    \/ run_python(Texts(MaxLen), WrapperKwargs)
    \/ run_javascript(Texts(MaxLen), WrapperKwargs)
    \/ run_bash(Texts(MaxLen), WrapperKwargs)
    \/ FaaSPost
    \/ FaaSExhausted

SpecShell == InitShell /\ [][NextShell]_vars

----------------------------------------------------------------------------
(* The POSIX shell reading a command line (Shell Command Language, 2.2 Quoting
   and 2.6 Word Expansions), over the characters of Alphabet and letters *)

\* what may follow a $ to begin an expansion: a name, a special parameter,
\* a brace or a parenthesis
ExpansionStart == {"a", "$", "{", "(", "@", "*", "#", "?", "-", "!"}

ShellWordsOf(words) == [kind |-> "words", words |-> words]
ShellFails(kind) == [kind |-> kind, words |-> <<>>]

\* the command line is read from position i; mode is the quoting in force, word
\* the characters of the word being read, inword whether there is such a word
RECURSIVE ShellScan(_, _, _, _, _, _)
ShellScan(cmd, i, mode, word, inword, words) ==
    IF i > Len(cmd)
    THEN IF mode /= "plain" THEN ShellFails("unterminated")
         ELSE ShellWordsOf(IF inword THEN Append(words, word) ELSE words)
    ELSE
    LET c == cmd[i]
        more == i < Len(cmd)
        d == IF more THEN cmd[i + 1] ELSE ""
        take(j, ch) == ShellScan(cmd, j, mode, Append(word, ch), TRUE, words)
    IN
    CASE mode = "single" ->
           IF c = SQ THEN ShellScan(cmd, i + 1, "plain", word, TRUE, words)
           ELSE take(i + 1, c)
      [] mode = "double" ->
           IF c = DQ THEN ShellScan(cmd, i + 1, "plain", word, TRUE, words)
           ELSE IF c = BS /\ more /\ d \in {DOLLAR, BT, DQ, BS} THEN take(i + 2, d)
           ELSE IF c = BS /\ more /\ d = NL
                THEN ShellScan(cmd, i + 2, mode, word, TRUE, words)
           ELSE IF c = BT THEN ShellFails("substitution")
           ELSE IF c = DOLLAR /\ more /\ d \in ExpansionStart
                THEN ShellFails("expansion")
           ELSE take(i + 1, c)
      [] OTHER ->
           IF c = SP
           THEN ShellScan(cmd, i + 1, mode, <<>>, FALSE,
                          IF inword THEN Append(words, word) ELSE words)
           ELSE IF c = NL THEN ShellFails("list")
           ELSE IF c = SQ THEN ShellScan(cmd, i + 1, "single", word, TRUE, words)
           ELSE IF c = DQ THEN ShellScan(cmd, i + 1, "double", word, TRUE, words)
           ELSE IF c = BS /\ more /\ d = NL
                THEN ShellScan(cmd, i + 2, mode, word, inword, words)
           ELSE IF c = BS /\ more THEN take(i + 2, d)
           ELSE IF c = BT THEN ShellFails("substitution")
           ELSE IF c = DOLLAR /\ more /\ d \in ExpansionStart
                THEN ShellFails("expansion")
           ELSE take(i + 1, c)

\* the words the shell hands to the program, or why it hands over none
ShellWords(cmd) == ShellScan(cmd, 1, "plain", <<>>, FALSE, <<>>)

----------------------------------------------------------------------------
(* Claims about the convenience wrappers *)

\* a wrapper of the given name has handed its command to execute
WrapperDelegated(w) ==
    /\ sh /= <<>>
    /\ sh.wrapper = w
    /\ sh.call = "execute"

\* the shell hands exactly program, flag and the source text to the program
RoundTrips(program, flag) ==
    ShellWords(args.command) = ShellWordsOf(<<program, flag, sh.text>>)

\* C26: for every source text over the alphabet, the shell's word splitting and
\* unquoting of the command built by run_javascript yields the words node,
\* -e and the original source text
C26_JavascriptRoundTrip ==
    WrapperDelegated("run_javascript") => RoundTrips(Node, DashE)

\* C27: for every script text over the alphabet, the shell's processing of the
\* double-quoted command built by run_bash hands the words sh, -c and the
\* original script to the program, with no expansion or substitution
C27_BashRoundTrip ==
    WrapperDelegated("run_bash") => RoundTrips(Sh, DashC)

\* C28: for every source text over the alphabet, the shell's unquoting of the
\* command built by run_python yields python3, -c and the original source
\* text as one argument
C28_PythonRoundTrip ==
    WrapperDelegated("run_python") => RoundTrips(Python3, DashC)

C28_Witness ==
    /\ WrapperDelegated("run_python")
    /\ sh.text = <<SQ, BS, NL>>
    /\ args.command = Python3 \o <<SP>> \o DashC
                      \o <<SP, SQ, SQ, BS, SQ, SQ, BS, NL, SQ>>
    /\ RoundTrips(Python3, DashC)
    /\ pc = "idle"
    /\ outcome.kind = "result"

\* C29: run_python and run_javascript called with an image among the additional
\* parameters delegate to execute with that image and end as execute ends
C29_CallerImageAccepted ==
    ( /\ sh /= <<>>
      /\ sh.wrapper \in {"run_python", "run_javascript"}
      /\ "image" \in DOMAIN sh.kwargs )
    => ( /\ sh.call = "execute"
         /\ args.image = sh.kwargs.image
         /\ ~(outcome.kind = "error" /\ outcome.type = "TypeError") )

----------------------------------------------------------------------------
(* Specification of the cache-hit flag of a result *)

FlagArgs == {ExecuteArgs(<<"a">>, <<"a">>, "None", <<>>, "", NoneInt, None)}
FlagRetries == 0..2

InitFlag ==
    /\ Construct({"FaaSClient", "FaaSPlatformClient"}, FlagRetries)
    /\ ExtIdle

NextFlag ==
    \/ FaaSBegin(FlagArgs)
    \/ FaaSBackoff
    \/ FaaSPostFlagged
    \/ FaaSExhausted
    \/ PlatformBegin({<<"a">>}, {<<"a">>})
    \/ PlatformBackoff
    \/ PlatformRequestFlagged
    \/ PlatformExhausted

SpecFlag == InitFlag /\ [][NextFlag]_vars

\* the answer the finished call took its result from
LastResponse == responses[Len(responses)]

RECURSIVE SumSeq(_)
SumSeq(s) == IF s = <<>> THEN 0 ELSE Head(s) + SumSeq(Tail(s))

\* the time the call took, as a clock around it measures it
MeasuredLatency == SumSeq([i \in 1..Len(responses) |-> responses[i].ms]) + SumSeq(delays)

\* an execute has returned a result
ExecuteReturned ==
    /\ pc = "idle"
    /\ outcome.kind = "result"
    /\ responses /= <<>>

\* C30: the cache-hit flag of an execute result is the platform's explicit cached
\* flag when the response carries one, and is inferred from the measured latency
\* (below the threshold) only when the response carries none
C30_ExplicitFlagElseLatency ==
    ExecuteReturned
    => outcome.cache_hit =
         (IF "cached" \in DOMAIN LastResponse
          THEN LastResponse.cached
          ELSE MeasuredLatency < CacheHitThresholdMs)

----------------------------------------------------------------------------
(* The direct fork: FaaSClient.fork_execution(parent_id, command, **kwargs) and
   FaaSPlatformClient.execute_branched(code, branch_from, env) *)

\* the additional parameters a caller of fork_execution passes
DirectKwargs ==
    {NoKwargs, [image |-> <<"a">>], [mode |-> "ephemeral"],
     [branch_from |-> <<"q">>], [command |-> <<"d">>]}

\* lines 514-520: a dict display, in which a later key replaces an earlier one
ForkPayload(parent_id, command, kwargs) ==
    kwargs @@ [command |-> command, mode |-> "branched",
               branch_from |-> parent_id, runtime |-> ConfigRuntime]

\* what the caller of a direct fork asked for, and how the call ended
DirectFork(parent, kwargs, result) ==
    [parent |-> parent, kwargs |-> kwargs, result |-> result]

\* lines 497-540: fork_execution called with two positional arguments and the
\* keywords kwargs.  A keyword that names a positional parameter is a TypeError
\* before the body runs; otherwise one POST is made
ForkDirect(Parents, Commands, Kwargs) ==
    /\ client = "FaaSClient"
    /\ built = "yes"
    /\ pc = "idle"
    /\ calls < MaxCalls
    /\ calls' = calls + 1
    /\ \E parent_id \in Parents, command \in Commands, kwargs \in Kwargs :
          IF DOMAIN kwargs \cap ForkRequired /= {}
          THEN /\ fk' = DirectFork(parent_id, kwargs,
                                   ForkError("TypeError", "multiple values"))
               /\ UNCHANGED <<netVars, sent, responses>>
          ELSE /\ sent' = <<ForkPayload(parent_id, command, kwargs)>>
               /\ wire' = <<Wire("fork_execution", "POST", NoHeaders)>>
               /\ session' = LazySession(session)
               /\ \E r \in OpAnswers :
                     /\ responses' = <<r>>
                     /\ fk' = DirectFork(parent_id, kwargs,
                                IF r.kind /= "response"
                                THEN ForkError(r.kind, "")
                                ELSE IF r.status /= 200
                                THEN ForkError("Exception", "Fork failed")
                                ELSE ForkResultOf([request_id |-> r.body]))
    /\ UNCHANGED <<tasks, pm, rc, fl, sh, sl, authVars, client, max_retries, cache_enabled,
                   metrics, pc, attempt, elapsed_ms, payload, last_error, delays,
                   outcome, args, metrics0, this_call, prev_call>>

\* lines 246-260 of client.py: execute_branched, up to the first attempt
PlatformBranched(Codes, Parents, Envs) ==
    /\ client = "FaaSPlatformClient"
    /\ \E branch_from \in Parents :
          /\ PlatformEnter({execute_branched(code, branch_from, env, nonce) :
                              code \in Codes, env \in Envs, nonce \in Nonces})
          /\ fk' = DirectFork(branch_from, NoKwargs, ForkError("pending", ""))
    /\ UNCHANGED <<tasks, pm, rc, fl, sh, sl>>

DirectParents == {<<"p">>, <<"q">>}
DirectRetries == {1, 2}

InitDirect ==
    /\ Construct({"FaaSClient", "FaaSPlatformClient"}, DirectRetries)
    /\ ExtIdle

NextDirect ==
    \/ ForkDirect(DirectParents, AuthNames, DirectKwargs)
    \/ PlatformBranched(AuthNames, DirectParents, AuthNames)
    \/ PlatformRequest
    \/ PlatformBackoff

SpecDirect == InitDirect /\ [][NextDirect]_vars

\* a direct fork was asked for and its call was bound
ForkAsked == fk /= <<>> /\ fk.result.type /= "TypeError"

\* C31: every request of a direct fork has mode branched and the given parent as
\* its branch origin, whatever additional parameters were passed; fork_execution
\* makes exactly one network call and raises on a non-200 answer
C31_DirectForkIsBranched ==
    ForkAsked
    => /\ \A i \in 1..Len(sent) :
            /\ sent[i].mode = "branched"
            /\ sent[i].branch_from = fk.parent
       /\ client = "FaaSClient"
          => /\ Len(sent) = 1
             /\ Len(wire) = 1
             /\ (responses[1].kind = "response" /\ responses[1].status /= 200)
                => (fk.result.kind = "error" /\ fk.result.msg = "Fork failed")

----------------------------------------------------------------------------
(* The transport session: context manager, lazy creation and close.  The
   network call that follows a use of the session does not touch _session. *)

MaxSessions == 3

\* the call returned (None, self or the session), leaving no other trace
Returned(op) == [NoOutcome EXCEPT !.kind = "result", !.type = op]

\* `if self._session: await self._session.close()`: the session _session refers
\* to, the last one created, is closed
CloseCurrent(s) ==
    IF s = NoSession THEN s ELSE [s EXCEPT ![Len(s)] = "closed"]

\* everything a call of the session's life cycle leaves alone
sessionFrame ==
    <<ext, authVars, wire, client, max_retries, cache_enabled, metrics, pc, attempt,
      elapsed_ms, payload, last_error, sent, responses, delays, calls, args,
      metrics0, this_call, prev_call>>

\* lines 323-325, and 128-133 of client.py: a new session replaces _session
aenter ==
    /\ built = "yes"
    /\ pc = "idle"
    /\ Len(session) < MaxSessions
    /\ session' = Append(session, "open")
    /\ outcome' = Returned("__aenter__")
    /\ UNCHANGED sessionFrame

\* lines 327-329, and 135-138 of client.py
aexit ==
    /\ built = "yes"
    /\ pc = "idle"
    /\ session' = CloseCurrent(session)
    /\ outcome' = Returned("__aexit__")
    /\ UNCHANGED sessionFrame

\* lines 422-425 of client.py
close ==
    /\ client = "FaaSPlatformClient"
    /\ built = "yes"
    /\ pc = "idle"
    /\ session' = CloseCurrent(session)
    /\ outcome' = Returned("close")
    /\ UNCHANGED sessionFrame

\* lines 331-335: the property every operation of FaaSClient reads
session_property ==
    /\ client = "FaaSClient"
    /\ built = "yes"
    /\ pc = "idle"
    /\ session' = LazySession(session)
    /\ outcome' = Returned("session")
    /\ UNCHANGED sessionFrame

\* lines 146-150 of client.py: the first statement of every _request
PlatformEnsureSession ==
    /\ client = "FaaSPlatformClient"
    /\ built = "yes"
    /\ pc = "idle"
    /\ session' = LazySession(session)
    /\ outcome' = Returned("_request")
    /\ UNCHANGED sessionFrame

SessionRetries == {1, 2}

InitSession ==
    /\ Construct({"FaaSClient", "FaaSPlatformClient"}, SessionRetries)
    /\ ExtIdle

NextSession ==
    \/ aenter
    \/ aexit
    \/ close
    \/ session_property
    \/ PlatformEnsureSession

SpecSession == InitSession /\ [][NextSession]_vars

\* the client has just been torn down
TornDown == outcome.kind = "result" /\ outcome.type \in {"__aexit__", "close"}

\* C32: after teardown every session the client ever created is closed
C32_TeardownClosesEverySession ==
    TornDown => \A i \in 1..Len(session) : session[i] = "closed"

----------------------------------------------------------------------------
(* Claims about the metrics and the other operations of FaaSClient *)

\* the operations of FaaSClient other than execute
OtherOperations ==
    {"fork_execution", "create_snapshot", "prewarm", "stream_logs", "get_metrics",
     "health_check"}

\* an operation other than execute has just finished: it was the client's
\* latest call, and it made one network call or was get_client_metrics
OtherOperationDone ==
    /\ client = "FaaSClient"
    /\ pc = "idle"
    /\ outcome.kind /= "none"
    /\ \/ wire /= <<>> /\ wire[1].op \in OtherOperations
       \/ outcome.type = "get_client_metrics"

\* C33: an operation other than execute leaves total_requests, cache_hits,
\* total_latency_ms and errors as they were, whether it succeeds or fails
C33_OnlyExecuteCounts ==
    [][OtherOperationDone' => metrics' = metrics]_vars

C33_Witness ==
    /\ OtherOperationDone
    /\ wire /= <<>>
    /\ wire[1].op = "prewarm"
    /\ outcome.kind = "error"
    /\ metrics.total_requests = 1
    /\ metrics.errors = 1

----------------------------------------------------------------------------
(* Claims about the backoff *)

\* the delays paid so far fit the attempts made so far: one between any two
\* consecutive attempts, none before the first and none after the last
DelaysBetweenAttempts ==
    /\ Len(delays) <= Len(sent)
    /\ Len(delays) < max_retries \/ delays = <<>>
    /\ pc \in {"idle", "exhausted"} =>
          Len(delays) = (IF sent = <<>> THEN 0 ELSE Len(sent) - 1)

\* C34: the delay after failed attempt i of _request is 2^i seconds, the delay
\* before attempt i >= 1 of FaaSClient.execute is 0.1 * 2^i seconds, each delay
\* is twice the previous one, and delays are only paid between attempts
C34_BackoffDoubles ==
    /\ \A j \in 1..Len(delays) :
          delays[j] = (IF client = "FaaSPlatformClient"
                       THEN PlatformBackoffBaseMs * (2 ^ (j - 1))
                       ELSE FaaSBackoffBaseMs * (2 ^ j))
    /\ \A j \in 2..Len(delays) : delays[j] = 2 * delays[j - 1]
    /\ DelaysBetweenAttempts

C34_Witness ==
    /\ client = "FaaSClient"
    /\ pc = "idle"
    /\ outcome.kind = "result"
    /\ Len(sent) = 3
    /\ delays = <<200, 400>>

----------------------------------------------------------------------------
(* FaaSClient.stream_logs as an async generator.  A call returns a generator
   and runs nothing; the body runs when the consumer pulls (__anext__), from
   the start or from the last yield up to the next yield or to its end.  The
   request is answered by a stream of lines that the remote side extends and,
   at some time, closes. *)

MaxLines == 2

\* the generators a consumer holds
GenIds == {1, 2}

\* bytes of a log line: ASCII letters and blanks, and the two bytes of U+00E9
ByteC3 == "xC3"
ByteA9 == "xA9"
EAcute == "U+00E9"

\* the line contents the remote side sends; each is followed by a line feed
LineContents == {<<SP, "a", SP>>, <<>>, <<ByteC3, ByteA9>>}

\* line.decode('utf-8') on these bytes
RECURSIVE DecodeUtf8(_)
DecodeUtf8(b) ==
    IF b = <<>> THEN <<>>
    ELSE IF Len(b) >= 2 /\ b[1] = ByteC3 /\ b[2] = ByteA9
    THEN <<EAcute>> \o DecodeUtf8(SubSeq(b, 3, Len(b)))
    ELSE <<Head(b)>> \o DecodeUtf8(Tail(b))

Whitespace == {SP, NL}

\* str.strip(): leading and trailing whitespace is removed
RECURSIVE Strip(_)
Strip(t) ==
    IF t = <<>> THEN t
    ELSE IF Head(t) \in Whitespace THEN Strip(Tail(t))
    ELSE IF t[Len(t)] \in Whitespace THEN Strip(SubSeq(t, 1, Len(t) - 1))
    ELSE t

\* a generator that has not run yet
NewGenerator ==
    [state |-> "created", request |-> 0, read |-> 0, yielded |-> <<>>]

\* the stream that answers a request: nothing sent yet, not closed
NewStream == [lines |-> <<>>, closed |-> FALSE]

NoStreams == [gens |-> <<>>, remote |-> <<>>]

\* variant: the generator jumps to the line that arrived last
MutNextLineLatest(stream, read) == stream.lines[Len(stream.lines)]

\* line 611: async for line in response.content (the next unread line)
NextLine(stream, read) == stream.lines[read + 1]

\* everything the generator leaves alone
streamFrame ==
    <<tasks, pm, rc, fl, fk, sh, authVars, client, max_retries, cache_enabled,
      metrics, seqVars>>

\* line 597: calling stream_logs creates the generator; no statement runs
StreamCall ==
    /\ client = "FaaSClient"
    /\ built = "yes"
    /\ Len(sl.gens) < Cardinality(GenIds)
    /\ sl' = [sl EXCEPT !.gens = Append(@, NewGenerator)]
    /\ UNCHANGED <<streamFrame, netVars>>

\* the consumer pulls: a new generator opens its request (lines 607-610), a
\* suspended one goes on after its yield, a finished one stops again at once
StreamPull ==
    /\ client = "FaaSClient"
    /\ \E g \in 1..Len(sl.gens) :
          LET gen == sl.gens[g] IN
          /\ CASE gen.state = "created" ->
                    /\ sl' = [gens |-> [sl.gens EXCEPT
                                          ![g] = [gen EXCEPT
                                                    !.state = "waiting",
                                                    !.request = Len(sl.remote) + 1]],
                              remote |-> Append(sl.remote, NewStream)]
                    /\ session' = LazySession(session)
                    /\ wire' = Append(wire, Wire("stream_logs", "GET", NoHeaders))
               [] gen.state = "suspended" ->
                    /\ sl' = [sl EXCEPT !.gens[g].state = "waiting"]
                    /\ UNCHANGED netVars
               [] gen.state = "finished" ->
                    /\ sl' = sl
                    /\ UNCHANGED netVars
               [] OTHER -> FALSE
    /\ UNCHANGED streamFrame

\* lines 611-613: the waiting generator gets the next line and yields it, or
\* finds the stream at its end and finishes (StopAsyncIteration to the puller)
StreamResume ==
    /\ client = "FaaSClient"
    /\ \E g \in 1..Len(sl.gens) :
          LET gen == sl.gens[g]
              stream == sl.remote[gen.request]
          IN
          /\ gen.state = "waiting"
          /\ IF gen.read < Len(stream.lines)
             THEN LET line == NextLine(stream, gen.read) IN
                  sl' = [sl EXCEPT
                           !.gens[g].read = @ + 1,
                           !.gens[g].state = IF line /= <<>> THEN "suspended" ELSE @,
                           !.gens[g].yielded =
                               IF line /= <<>>
                               THEN Append(@, Strip(DecodeUtf8(line)))
                               ELSE @]
             ELSE /\ stream.closed
                  /\ sl' = [sl EXCEPT !.gens[g].state = "finished"]
    /\ UNCHANGED <<streamFrame, netVars>>

\* the remote side sends a line (content and line feed) on an open stream
RemoteSend ==
    /\ \E r \in 1..Len(sl.remote), content \in LineContents :
          /\ ~sl.remote[r].closed
          /\ Len(sl.remote[r].lines) < MaxLines
          /\ sl' = [sl EXCEPT !.remote[r].lines = Append(@, content \o <<NL>>)]
    /\ UNCHANGED <<streamFrame, netVars>>

\* the remote side closes a stream
RemoteClose ==
    /\ \E r \in 1..Len(sl.remote) :
          /\ ~sl.remote[r].closed
          /\ sl' = [sl EXCEPT !.remote[r].closed = TRUE]
    /\ UNCHANGED <<streamFrame, netVars>>

InitStream ==
    /\ Construct({"FaaSClient"}, {1})
    /\ Keyed(<<"k">>)
    /\ NoTasks /\ NoParallelMap /\ NoRace /\ NoChain /\ NoFork /\ NoWrapper
    /\ sl = NoStreams

NextStream ==
    \/ StreamCall
    \/ StreamPull
    \/ StreamResume
    \/ RemoteSend
    \/ RemoteClose

SpecStream == InitStream /\ [][NextStream]_vars

----------------------------------------------------------------------------
(* Claims about stream_logs *)

\* the generators that have opened their request
Opened == {g \in 1..Len(sl.gens) : sl.gens[g].request /= 0}

StreamOf(g) == sl.remote[sl.gens[g].request]

\* a line as sent, without its line feed
ContentOf(line) == SubSeq(line, 1, Len(line) - 1)

\* the generator runs only under a pull, reads one request of its own, and is
\* finished only at the end of a closed stream
LazyOwnRequest ==
    /\ \A g \in 1..Len(sl.gens) :
          sl.gens[g].state = "created"
          <=> (sl.gens[g].request = 0 /\ sl.gens[g].yielded = <<>>)
    /\ \A g, h \in Opened : sl.gens[g].request = sl.gens[h].request => g = h
    /\ Len(wire) = Cardinality(Opened)
    /\ \A g \in Opened :
          /\ sl.gens[g].read <= Len(StreamOf(g).lines)
          /\ sl.gens[g].state = "finished"
             => (StreamOf(g).closed /\ sl.gens[g].read = Len(StreamOf(g).lines))

\* a line is yielded only to a pending pull, one line per pull, and a finished
\* generator stays as it is
OnePerPull ==
    \A g \in 1..Len(sl.gens) :
       /\ sl'.gens[g].yielded /= sl.gens[g].yielded
          => /\ sl.gens[g].state = "waiting"
             /\ sl'.gens[g].state = "suspended"
             /\ Len(sl'.gens[g].yielded) = Len(sl.gens[g].yielded) + 1
       /\ sl.gens[g].state = "finished" => sl'.gens[g] = sl.gens[g]

\* C35 as stated: what has been yielded is the decoded lines read so far, in
\* arrival order; the generator is lazy, ends when the remote side has closed
\* the stream, reads a request of its own and is not resumed once finished
C35_YieldsDecodedLines ==
    /\ [](LazyOwnRequest
          /\ \A g \in Opened :
                sl.gens[g].yielded =
                  [i \in 1..sl.gens[g].read |->
                     DecodeUtf8(ContentOf(StreamOf(g).lines[i]))])
    /\ [][OnePerPull]_vars

\* C35, amended: what has been yielded is, for each line read so far in arrival
\* order, its UTF-8 decoding with leading and trailing whitespace removed; the
\* generator is lazy, ends when the remote side has closed the stream, reads a
\* request of its own, opened at its first pull, and is not resumed once finished
C35_YieldsStrippedLines ==
    /\ [](LazyOwnRequest
          /\ \A g \in Opened :
                sl.gens[g].yielded =
                  [i \in 1..sl.gens[g].read |->
                     Strip(DecodeUtf8(StreamOf(g).lines[i]))])
    /\ [][OnePerPull]_vars

C35_Witness ==
    /\ Len(sl.gens) = 2
    /\ sl.gens[1].state = "finished"
    /\ StreamOf(1).lines = <<<<SP, "a", SP, NL>>, <<ByteC3, ByteA9, NL>>>>
    /\ sl.gens[1].yielded = <<<<"a">>, <<EAcute>>>>
    /\ sl.gens[2].state = "suspended"
    /\ sl.gens[2].request /= sl.gens[1].request
    /\ sl.gens[2].yielded = <<<<>>>>

----------------------------------------------------------------------------
(* Claims about the counters of ClientMetrics *)

\* C36: in every reachable state of a FaaSClient the error counter does not
\* exceed the request counter, so that error_rate lies within [0, 1]
C36_ErrorsWithinRequests ==
    client = "FaaSClient"
    => /\ metrics.errors <= metrics.total_requests
       /\ error_rate(metrics)[1] <= error_rate(metrics)[2]

----------------------------------------------------------------------------
\* the delete call for snapshot i has been started
DeleteStarted(i) == pm.deletes[i] /= "none"

\* C37: in parallel_map the delete call for a snapshot is started only after
\* the worker on that snapshot has finished or been cancelled, in every
\* interleaving, also when one worker raises while its siblings are running
C37_NoDeleteUnderRunningWorker ==
    pm /= <<>>
    => \A i \in 1..pm.n :
          DeleteStarted(i) => pm.workers[i] \in {"ok", "raised", "cancelled"}

----------------------------------------------------------------------------
\* race has raised instead of returning an execution result
RaceRaised == RaceOver /\ rc.outcome /= "result"

\* C38: race raises only if every raced request fails; when the request that
\* completes first fails while another one would complete successfully,
\* race still returns a successful result
C38_RaisesOnlyIfAllFail ==
    RaceRaised => \A i \in 1..rc.n : rc.reqs[i] = "raised"

----------------------------------------------------------------------------
\* a step of the run under way has just completed successfully
ChainStepSucceeded ==
    /\ fl /= <<>>
    /\ fl.running /= "no"
    /\ Len(fl'.answers) = Len(fl.answers) + 1

\* the step before the one completing produced a snapshot that is still the
\* current one
ChainHoldsSnapshot ==
    /\ Len(fl.answers) >= 1
    /\ ~Falsy(fl.answers[Len(fl.answers)])
    /\ fl.current_snapshot = fl.answers[Len(fl.answers)]

\* C39: within a run of a state chain, after every successful from_env, exec
\* or branch step that follows a step which produced a snapshot,
\* current_snapshot is non-empty
C39_SnapshotNeverLost ==
    [][ChainStepSucceeded /\ ChainHoldsSnapshot
        => ~Falsy(fl'.current_snapshot)]_vars

----------------------------------------------------------------------------
\* the outcomes of a run in which a step raised
ChainFailures == {"Request failed", "No snapshot to branch from"}

\* the last run ended because one of its steps raised
ChainFailed == fl /= <<>> /\ fl.running = "no" /\ fl.outcome \in ChainFailures

\* the run under way ends in this step without a new answer: a step raised
ChainStepFails ==
    /\ fl /= <<>>
    /\ fl.running /= "no"
    /\ fl'.running = "no"
    /\ fl'.answers = fl.answers

(* C40: if a step of a state chain fails during run, the error propagates out
   of run, no later step of the chain is executed (no request is issued for
   it), and current_snapshot keeps the value set by the last step that
   succeeded. *)
C40_FailureStopsTheChain ==
    /\ [](ChainFailed
          => /\ Len(fl.answers) < Len(fl.operations)
             /\ Len(fl.requests) - Len(fl.answers)
                   = (IF fl.outcome = "Request failed" THEN 1 ELSE 0)
             /\ Len(fl.answers) >= 1
                   => fl.current_snapshot = fl.answers[Len(fl.answers)])
    /\ [][ChainStepFails
          => /\ fl'.outcome \in ChainFailures
             /\ fl'.requests = fl.requests
             /\ fl'.current_snapshot = fl.current_snapshot]_vars
    /\ [][(ChainFailed /\ fl'.runs = fl.runs)
          => /\ fl'.requests = fl.requests
             /\ fl'.current_snapshot = fl.current_snapshot]_vars

C40_Witness ==
    /\ ChainFailed
    /\ fl.runs = 1
    /\ fl.outcome = "Request failed"
    /\ fl.operations = <<"from_env", "exec", "branch">>
    /\ Len(fl.requests) = 2
    /\ Len(fl.answers) = 1
    /\ fl.current_snapshot = ChainSnapshotId(1)

====
